---- MODULE Spec2Model ----
(***************************************************************************)
(* A model of the MindMap test-plan models of workflow_client:             *)
(*   models/mindmap/templates.py   the template catalog and its lookups    *)
(*   models/mindmap/components.py  the plan entities and their counts      *)
(*   models/mindmap/mindmap.py     the plan aggregate, validate(), the     *)
(*                                 factories                               *)
(* Python lists are sequences, dicts are functions over their key set,     *)
(* enum members are their string values (use_enum_values=True).            *)
(***************************************************************************)
EXTENDS Integers, Sequences, FiniteSets, TLC

VARIABLES
    mm,     \* the MindMapModel under construction / mutation
    call,   \* arguments of a pending call of a catalog function or constructor
    ret,    \* result of the most recent call on the current state
    heap    \* the catalog tables of templates.py as they currently stand, and
            \* which objects held by a caller are the very objects of a table

vars == <<mm, call, ret, heap>>

(***************************************************************************)
(* Bounds of the model                                                     *)
(***************************************************************************)
MaxTriggerButtons == 3   \* longest trigger_buttons list of a widget
MaxModes == 2            \* modes.append is explored up to this many modes
MaxPlanSize == 3         \* entities below the modes of an aggregate (widgets,
                         \* buttons, decision tables, viewpoints, test items,
                         \* trigger names, edited fixed-test bundles)
MaxCheckedPlanSize == 2  \* the same, in the runs that explore validate()
MaxWidgetPlanSize == 4   \* the same, in the runs that explore one widget's total

Range(s) == {s[i] : i \in DOMAIN s}

RECURSIVE SumSeq(_)
SumSeq(s) == IF s = <<>> THEN 0 ELSE Head(s) + SumSeq(Tail(s))

\* [f(x) for x in s]
Map(s, f(_)) == [i \in DOMAIN s |-> f(s[i])]

\* del s[i]
RemoveAt(s, i) == SubSeq(s, 1, i - 1) \o SubSeq(s, i + 1, Len(s))

(***************************************************************************)
(* enums.py                                                                *)
(***************************************************************************)
ScreenMode == {"LIST", "ADD", "EDIT", "VIEW"}

WidgetType == {"EMAIL", "TEXT_INPUT", "PASSWORD", "NUMBER", "TEXTAREA",
               "DROPDOWN", "CHECKBOX", "RADIO", "DATE", "DATETIME",
               "FILE_UPLOAD", "TABLE", "SEARCH_BOX", "BUTTON", "LINK", "LABEL"}

(***************************************************************************)
(* templates.py: the catalog                                               *)
(***************************************************************************)
WIDGET_TEST_COUNTS ==
    [EMAIL |-> 20, TEXT_INPUT |-> 12, PASSWORD |-> 12, NUMBER |-> 10,
     TEXTAREA |-> 12, DROPDOWN |-> 4, CHECKBOX |-> 3, RADIO |-> 3,
     DATE |-> 8, DATETIME |-> 10, FILE_UPLOAD |-> 6, SEARCH_BOX |-> 16,
     TABLE |-> 10, BUTTON |-> 2, LINK |-> 2, LABEL |-> 1]

LIST_MODE_FIXED_TESTS ==
    [role_access_tests |-> 4, search_tests |-> 15, pagination_tests |-> 14,
     sort_tests |-> 10, reset_tests |-> 6, export_tests |-> 11,
     screen_transition_tests |-> 1, gui_tests |-> 2]

ADD_MODE_FIXED_TESTS ==
    [concurrent_tests |-> 1, db_error_tests |-> 1, double_click_tests |-> 2,
     gui_tests |-> 1]

EDIT_MODE_FIXED_TESTS ==
    [concurrent_tests |-> 1, db_error_tests |-> 1, double_click_tests |-> 1,
     gui_tests |-> 1]

VIEW_MODE_FIXED_TESTS == [gui_tests |-> 1]

MODE_VALIDATION_TRIGGERS ==
    [LIST |-> <<>>, ADD |-> <<"Search", "Save">>, EDIT |-> <<>>, VIEW |-> <<>>]

DT_COMBINATIONS ==
    [ADD |-> [System_Admin |-> 6, Backoffice |-> 4, Operator |-> 2],
     EDIT |-> [System_Admin |-> 10, Backoffice |-> 8, Operator |-> 1]]

DT_ROW_MULTIPLIER == 2

WIDGET_APPLICABLE_MODES ==
    [EMAIL |-> <<"ADD">>, TEXT_INPUT |-> <<"ADD", "EDIT">>, PASSWORD |-> <<"ADD">>,
     NUMBER |-> <<"ADD", "EDIT">>, TEXTAREA |-> <<"ADD", "EDIT">>,
     DROPDOWN |-> <<"LIST", "ADD", "EDIT">>, CHECKBOX |-> <<"ADD", "EDIT">>,
     RADIO |-> <<"ADD", "EDIT">>, DATE |-> <<"ADD", "EDIT">>,
     DATETIME |-> <<"ADD", "EDIT">>, FILE_UPLOAD |-> <<"ADD", "EDIT">>,
     SEARCH_BOX |-> <<"LIST">>, TABLE |-> <<"LIST">>,
     BUTTON |-> <<"LIST", "ADD", "EDIT">>, LINK |-> <<"LIST", "ADD", "EDIT">>,
     LABEL |-> <<"LIST", "ADD", "EDIT", "VIEW">>]

\* the module-level tables as the import of templates.py leaves them
CatalogAtLoad ==
    [WIDGET_TEST_COUNTS |-> WIDGET_TEST_COUNTS,
     LIST_MODE_FIXED_TESTS |-> LIST_MODE_FIXED_TESTS,
     ADD_MODE_FIXED_TESTS |-> ADD_MODE_FIXED_TESTS,
     EDIT_MODE_FIXED_TESTS |-> EDIT_MODE_FIXED_TESTS,
     VIEW_MODE_FIXED_TESTS |-> VIEW_MODE_FIXED_TESTS,
     MODE_VALIDATION_TRIGGERS |-> MODE_VALIDATION_TRIGGERS,
     DT_COMBINATIONS |-> DT_COMBINATIONS,
     DT_ROW_MULTIPLIER |-> DT_ROW_MULTIPLIER,
     WIDGET_APPLICABLE_MODES |-> WIDGET_APPLICABLE_MODES]

\* no object in a caller's hands is an object of the catalog
HeapAtLoad == [catalog |-> CatalogAtLoad, shared |-> {}]

\* dict.get(key, default)
DictGet(d, key, default) == IF key \in DOMAIN d THEN d[key] ELSE default

get_widget_test_count(widget_type) == DictGet(WIDGET_TEST_COUNTS, widget_type, 0)

\* the variant that counts the declared names, one per occurrence
calculate_trigger_tests_per_declared(widget_type, trigger_buttons, mode) ==
    LET base_tests == get_widget_test_count(widget_type)
        mode_triggers == DictGet(MODE_VALIDATION_TRIGGERS, mode, <<>>)
        applicable_triggers ==
            SelectSeq(trigger_buttons, LAMBDA t : t \in Range(mode_triggers))
    IN  IF applicable_triggers = <<>> THEN 0
        ELSE base_tests * Len(applicable_triggers)

\* the variant that pairs the declared names with the mode's list by position
calculate_trigger_tests_by_position(widget_type, trigger_buttons, mode) ==
    LET base_tests == get_widget_test_count(widget_type)
        mode_triggers == DictGet(MODE_VALIDATION_TRIGGERS, mode, <<>>)
        applicable_triggers ==
            {i \in DOMAIN mode_triggers \cap DOMAIN trigger_buttons :
                 mode_triggers[i] = trigger_buttons[i]}
    IN  base_tests * Cardinality(applicable_triggers)

calculate_trigger_tests(widget_type, trigger_buttons, mode) ==
    LET base_tests == get_widget_test_count(widget_type)
        mode_triggers == DictGet(MODE_VALIDATION_TRIGGERS, mode, <<>>)
        applicable_triggers ==
            SelectSeq(mode_triggers, LAMBDA t : t \in Range(trigger_buttons))
    IN  IF applicable_triggers = <<>> THEN 0
        ELSE base_tests * Len(applicable_triggers)

\* [ScreenMode(v) for v in WIDGET_APPLICABLE_MODES.get(key, [])]; a ScreenMode
\* member is a str equal to its value
get_applicable_modes(widget_type) ==
    Map(DictGet(WIDGET_APPLICABLE_MODES, widget_type, <<>>),
        LAMBDA v : CHOOSE member \in ScreenMode : member = v)

\* the variant whose last branch is an else
get_mode_fixed_tests_view_as_default(mode) ==
    IF mode = "LIST" THEN LIST_MODE_FIXED_TESTS
    ELSE IF mode = "ADD" THEN ADD_MODE_FIXED_TESTS
    ELSE IF mode = "EDIT" THEN EDIT_MODE_FIXED_TESTS
    ELSE VIEW_MODE_FIXED_TESTS

\* the dict returned; <<>> is the empty dict
get_mode_fixed_tests(mode) ==
    IF mode = "LIST" THEN LIST_MODE_FIXED_TESTS
    ELSE IF mode = "ADD" THEN ADD_MODE_FIXED_TESTS
    ELSE IF mode = "EDIT" THEN EDIT_MODE_FIXED_TESTS
    ELSE IF mode = "VIEW" THEN VIEW_MODE_FIXED_TESTS
    ELSE <<>>

\* the variant that returns the combinations, without the row multiplier
get_dt_test_count_combinations_only(mode, role_context) ==
    LET mode_dts == DictGet(DT_COMBINATIONS, mode, <<>>)
    IN  DictGet(mode_dts, role_context, 0)

get_dt_test_count(mode, role_context) ==
    LET mode_dts == DictGet(DT_COMBINATIONS, mode, <<>>)
        combinations == DictGet(mode_dts, role_context, 0)
    IN  combinations * DT_ROW_MULTIPLIER

(***************************************************************************)
(* Which object a call hands out.  An object of the catalog is named by    *)
(* its table and, for a list kept inside a table, its key; NewObject is an *)
(* object made by the call itself (or an immutable value).                 *)
(***************************************************************************)
NewObject == <<"new", "">>

\* the variant that returns the table itself
get_mode_fixed_tests_object_uncopied(mode) ==
    IF mode = "LIST" THEN <<"LIST_MODE_FIXED_TESTS", "">>
    ELSE IF mode = "ADD" THEN <<"ADD_MODE_FIXED_TESTS", "">>
    ELSE IF mode = "EDIT" THEN <<"EDIT_MODE_FIXED_TESTS", "">>
    ELSE IF mode = "VIEW" THEN <<"VIEW_MODE_FIXED_TESTS", "">>
    ELSE NewObject

\* X_MODE_FIXED_TESTS.copy(), or a {} literal
get_mode_fixed_tests_object(mode) == NewObject

\* a list comprehension
get_applicable_modes_object(widget_type) == NewObject

(***************************************************************************)
(* Calls of calculate_trigger_tests on enumerated arguments                *)
(***************************************************************************)
NoCall == [fn |-> "none"]
NoRet == [op |-> "none"]
NoPlan == [plan_id |-> "", screen_id |-> "", screen_name |-> "", modes |-> <<>>]

\* widget kinds passed to the lookups: three catalogued ones and an unknown one
WidgetTypeArgs == {"EMAIL", "CHECKBOX", "LABEL", "SLIDER"}
\* modes passed to the lookups: the four screen modes and an unknown one
ModeArgs == ScreenMode \cup {"PRINT"}
\* trigger names a widget may declare
TriggerNames == {"Search", "Save", "Cancel"}

SeqsUpTo(S, n) == UNION {[1..k -> S] : k \in 0..n}

InitCalc ==
    /\ mm = NoPlan
    /\ ret = NoRet
    /\ heap = HeapAtLoad
    /\ call \in [fn : {"calculate_trigger_tests"},
                 widget_type : WidgetTypeArgs,
                 trigger_buttons : SeqsUpTo(TriggerNames, MaxTriggerButtons),
                 mode : ModeArgs]

CallCalculateTriggerTests ==
    /\ call.fn = "calculate_trigger_tests"
    /\ ret.op = "none"
    /\ ret' = [op |-> "calculate_trigger_tests",
               val |-> calculate_trigger_tests(call.widget_type,
                                               call.trigger_buttons, call.mode)]
    /\ UNCHANGED <<mm, call, heap>>

NextCalc == CallCalculateTriggerTests

SpecCalc == InitCalc /\ [][NextCalc]_vars

\* C1: calculate_trigger_tests(w, T, m) returns base(w) * k, where base(w) is
\* the catalog count of w (0 for an unknown kind) and k is the number of
\* entries of the catalog's validation-trigger list of m that occur in T;
\* it returns 0 when k = 0; EMAIL with [Search, Save] gives 40 in ADD mode
\* and 0 in VIEW mode.
C1_TriggerLaw ==
    ret.op = "calculate_trigger_tests" =>
        LET triggers == IF call.mode \in DOMAIN MODE_VALIDATION_TRIGGERS
                        THEN MODE_VALIDATION_TRIGGERS[call.mode] ELSE <<>>
            k == Cardinality({i \in DOMAIN triggers :
                    \E j \in DOMAIN call.trigger_buttons :
                        call.trigger_buttons[j] = triggers[i]})
            base == IF call.widget_type \in DOMAIN WIDGET_TEST_COUNTS
                    THEN WIDGET_TEST_COUNTS[call.widget_type] ELSE 0
        IN  /\ ret.val = base * k
            /\ (k = 0 => ret.val = 0)
            /\ (/\ call.widget_type = "EMAIL"
                /\ call.trigger_buttons = <<"Search", "Save">>
                /\ call.mode = "ADD") => ret.val = 40
            /\ (/\ call.widget_type = "EMAIL"
                /\ call.trigger_buttons = <<"Search", "Save">>
                /\ call.mode = "VIEW") => ret.val = 0

\* the EMAIL example in ADD mode has been computed
C1_Witness ==
    /\ ret.op = "calculate_trigger_tests"
    /\ call.widget_type = "EMAIL"
    /\ call.trigger_buttons = <<"Search", "Save">>
    /\ call.mode = "ADD"
    /\ ret.val = 40

(***************************************************************************)
(* components.py: DTReference and FixedTests                               *)
(***************************************************************************)
FixedCategories ==
    {"role_access_tests", "search_tests", "pagination_tests", "sort_tests",
     "reset_tests", "export_tests", "screen_transition_tests",
     "concurrent_tests", "db_error_tests", "double_click_tests", "gui_tests"}

\* DTReference(combinations=c, row_multiplier=r); row_multiplier_arg is <<>>
\* when the keyword is not given and <<r>> when it is.  The fields are plain
\* ints: no validator constrains them, so every integer is accepted.
DTReference(combinations, row_multiplier_arg) ==
    [combinations |-> combinations,
     row_multiplier |-> IF row_multiplier_arg = <<>> THEN 2
                        ELSE row_multiplier_arg[1]]

\* the variant that always applies the catalog's multiplier
DTReference_total_tests_catalog_multiplier(dt) ==
    dt.combinations * DT_ROW_MULTIPLIER

DTReference_total_tests(dt) == dt.combinations * dt.row_multiplier

\* FixedTests(**kwargs): every category not given defaults to 0
FixedTests(kwargs) == [c \in FixedCategories |-> DictGet(kwargs, c, 0)]

FixedTests_total(ft) ==
    ft["role_access_tests"] + ft["search_tests"] + ft["pagination_tests"] +
    ft["sort_tests"] + ft["reset_tests"] + ft["export_tests"] +
    ft["screen_transition_tests"] + ft["concurrent_tests"] +
    ft["db_error_tests"] + ft["double_click_tests"] + ft["gui_tests"]

(***************************************************************************)
(* Construction of a DTReference or a FixedTests on enumerated arguments,  *)
(* followed by a read of its count                                         *)
(***************************************************************************)
MaxCombinations == 10    \* combinations arguments range over -1..MaxCombinations
MaxRowMultiplier == 3    \* row_multiplier arguments range over -1..MaxRowMultiplier
MaxFixedCount == 2       \* fixed-test count arguments range over -1..MaxFixedCount

FixedTestsKwargs ==
    {LIST_MODE_FIXED_TESTS, ADD_MODE_FIXED_TESTS, EDIT_MODE_FIXED_TESTS,
     VIEW_MODE_FIXED_TESTS, <<>>}
    \cup UNION {[{c} -> -1..MaxFixedCount] : c \in FixedCategories}

InitEntity ==
    /\ mm = NoPlan
    /\ ret = NoRet
    /\ heap = HeapAtLoad
    /\ \/ call \in [fn : {"DTReference"},
                    combinations : -1..MaxCombinations,
                    row_multiplier : {<<>>} \cup {<<r>> : r \in -1..MaxRowMultiplier}]
       \/ call \in [fn : {"FixedTests"}, kwargs : FixedTestsKwargs]

ConstructDTReference ==
    /\ call.fn = "DTReference"
    /\ ret.op = "none"
    /\ ret' = [op |-> "DTReference", raised |-> "none",
               entity |-> DTReference(call.combinations, call.row_multiplier)]
    /\ UNCHANGED <<mm, call, heap>>

ReadDTReferenceTotalTests ==
    /\ ret.op = "DTReference"
    /\ ret.raised = "none"
    /\ ret' = [op |-> "DTReference.total_tests", entity |-> ret.entity,
               val |-> DTReference_total_tests(ret.entity)]
    /\ UNCHANGED <<mm, call, heap>>

ConstructFixedTests ==
    /\ call.fn = "FixedTests"
    /\ ret.op = "none"
    /\ ret' = [op |-> "FixedTests", raised |-> "none",
               entity |-> FixedTests(call.kwargs)]
    /\ UNCHANGED <<mm, call, heap>>

ReadFixedTestsTotal ==
    /\ ret.op = "FixedTests"
    /\ ret.raised = "none"
    /\ ret' = [op |-> "FixedTests.total", entity |-> ret.entity,
               val |-> FixedTests_total(ret.entity)]
    /\ UNCHANGED <<mm, call, heap>>

NextEntity ==
    \/ ConstructDTReference
    \/ ReadDTReferenceTotalTests
    \/ ConstructFixedTests
    \/ ReadFixedTestsTotal

SpecEntity == InitEntity /\ [][NextEntity]_vars

\* C5: a Decision Table Reference's total_tests is combinations times
\* row_multiplier (6 and 2 give 12), and it is even whenever the row
\* multiplier was left at its default.
C5_DTLaw ==
    ret.op = "DTReference.total_tests" =>
        LET r == IF call.row_multiplier = <<>> THEN 2 ELSE call.row_multiplier[1]
        IN  /\ ret.val = call.combinations * r
            /\ (call.combinations = 6 /\ r = 2) => ret.val = 12
            /\ call.row_multiplier = <<>> => ret.val % 2 = 0

\* total_tests has been read from DTReference(combinations=6), multiplier
\* left at its default
C5_Witness ==
    /\ ret.op = "DTReference.total_tests"
    /\ call.combinations = 6
    /\ call.row_multiplier = <<>>
    /\ ret.val = 12

\* C6: constructing a DTReference with combinations < 0 or row_multiplier < 1,
\* or a FixedTests with a negative count, raises InvalidPlanValueError and
\* yields no entity; no entity ever holds such a value.
C6_RejectsInvalidValues ==
    /\ (/\ ret.op = "DTReference"
        /\ \/ call.combinations < 0
           \/ (call.row_multiplier # <<>> /\ call.row_multiplier[1] < 1))
       => ret.raised = "InvalidPlanValueError"
    /\ (/\ ret.op = "FixedTests"
        /\ \E c \in DOMAIN call.kwargs : call.kwargs[c] < 0)
       => ret.raised = "InvalidPlanValueError"
    /\ (ret.op \in {"DTReference", "DTReference.total_tests"} /\ "entity" \in DOMAIN ret)
       => (ret.entity.combinations >= 0 /\ ret.entity.row_multiplier >= 1)
    /\ (ret.op \in {"FixedTests", "FixedTests.total"} /\ "entity" \in DOMAIN ret)
       => \A c \in FixedCategories : ret.entity[c] >= 0

(***************************************************************************)
(* components.py: the other plan entities.  Only the fields that the       *)
(* counts, validate() and the factories read are kept; the descriptive     *)
(* ones (names, labels, procedure texts, constraints, ...) are dropped.    *)
(***************************************************************************)
TestItem(id) == [id |-> id]

ViewpointPlan(viewpoint_id) == [viewpoint_id |-> viewpoint_id, test_items |-> <<>>]

ViewpointPlan_test_count(vp) == Len(vp.test_items)

WidgetTestPlan(widget_id, widget_type) ==
    [widget_id |-> widget_id, widget_type |-> widget_type,
     viewpoints |-> <<>>, trigger_buttons |-> <<>>]

\* the variant that counts viewpoints instead of their test items
WidgetTestPlan_total_tests_per_viewpoint(w) == Len(w.viewpoints)

WidgetTestPlan_total_tests(w) == SumSeq(Map(w.viewpoints, ViewpointPlan_test_count))

ButtonTestPlan(button_id) == [button_id |-> button_id, viewpoints |-> <<>>]

ButtonTestPlan_total_tests(b) == SumSeq(Map(b.viewpoints, ViewpointPlan_test_count))

ModeTestPlan(mode, validation_triggers, fixed_tests) ==
    [mode |-> mode, widgets |-> <<>>, buttons |-> <<>>, decision_tables |-> <<>>,
     fixed_tests |-> fixed_tests, validation_triggers |-> validation_triggers]

ModeTestPlan_widget_tests(m) == SumSeq(Map(m.widgets, WidgetTestPlan_total_tests))

ModeTestPlan_button_tests(m) == SumSeq(Map(m.buttons, ButtonTestPlan_total_tests))

ModeTestPlan_dt_tests(m) == SumSeq(Map(m.decision_tables, DTReference_total_tests))

ModeTestPlan_total_tests(m) ==
    ModeTestPlan_widget_tests(m) + ModeTestPlan_button_tests(m) +
    ModeTestPlan_dt_tests(m) + FixedTests_total(m.fixed_tests)

(***************************************************************************)
(* mindmap.py: the aggregate                                               *)
(***************************************************************************)
\* validation_status, validation_errors and validation_warnings are filled in
\* by an external checker; the constructor leaves them None, [] and [].
MindMapModel(plan_id, screen_id, screen_name, modes) ==
    [plan_id |-> plan_id, screen_id |-> screen_id, screen_name |-> screen_name,
     modes |-> modes, version |-> "2.3", screen_type |-> "CRUD_MASTER",
     validation_status |-> "None", validation_errors |-> <<>>,
     validation_warnings |-> <<>>]

\* the variant that leaves the last mode out of the sum
MindMapModel_total_expected_tests_but_last(m) ==
    SumSeq(Map(SubSeq(m.modes, 1, Len(m.modes) - 1), ModeTestPlan_total_tests))

MindMapModel_total_expected_tests(m) == SumSeq(Map(m.modes, ModeTestPlan_total_tests))

\* An error message is the tuple of the parts its f-string joins.
\* Duplicate-id scan of _validate_mode: ids in list order, seen the set built
\* so far, one message per id already seen.
RECURSIVE DuplicateIdErrors(_, _, _, _)
DuplicateIdErrors(ids, seen, mode_name, what) ==
    IF ids = <<>> THEN <<>>
    ELSE (IF Head(ids) \in seen
          THEN << <<"Mode ", mode_name, ": ", what, Head(ids)>> >>
          ELSE <<>>)
         \o DuplicateIdErrors(Tail(ids), seen \cup {Head(ids)}, mode_name, what)

WidgetId(w) == w.widget_id
ButtonId(b) == b.button_id

\* the variant that skips the button scan
MindMapModel_validate_mode_widgets_only(mode) ==
    DuplicateIdErrors(Map(mode.widgets, WidgetId), {}, mode.mode, "Duplicate widget_id: ")

MindMapModel_validate_mode(mode) ==
    DuplicateIdErrors(Map(mode.widgets, WidgetId), {}, mode.mode, "Duplicate widget_id: ")
    \o DuplicateIdErrors(Map(mode.buttons, ButtonId), {}, mode.mode, "Duplicate button_id: ")

\* the variant without the duplicate-mode check
RECURSIVE ValidateModesLoop_no_mode_check(_, _)
ValidateModesLoop_no_mode_check(modes, mode_names) ==
    IF modes = <<>> THEN <<>>
    ELSE MindMapModel_validate_mode(Head(modes))
         \o ValidateModesLoop_no_mode_check(Tail(modes), mode_names)

\* the loop over self.modes of validate(), mode_names being the set built so far
RECURSIVE ValidateModesLoop(_, _)
ValidateModesLoop(modes, mode_names) ==
    IF modes = <<>> THEN <<>>
    ELSE (IF Head(modes).mode \in mode_names
          THEN << <<"Duplicate mode: ", Head(modes).mode>> >>
          ELSE <<>>)
         \o MindMapModel_validate_mode(Head(modes))
         \o ValidateModesLoop(Tail(modes), mode_names \cup {Head(modes).mode})

\* the variant whose sets of seen ids are not reset from one mode to the next
RECURSIVE ValidateModesLoop_ids_across_modes(_, _, _, _)
ValidateModesLoop_ids_across_modes(modes, mode_names, widget_ids, button_ids) ==
    IF modes = <<>> THEN <<>>
    ELSE LET mode == Head(modes)
         IN  (IF mode.mode \in mode_names
              THEN << <<"Duplicate mode: ", mode.mode>> >>
              ELSE <<>>)
             \o DuplicateIdErrors(Map(mode.widgets, WidgetId), widget_ids,
                                  mode.mode, "Duplicate widget_id: ")
             \o DuplicateIdErrors(Map(mode.buttons, ButtonId), button_ids,
                                  mode.mode, "Duplicate button_id: ")
             \o ValidateModesLoop_ids_across_modes(
                    Tail(modes), mode_names \cup {mode.mode},
                    widget_ids \cup Range(Map(mode.widgets, WidgetId)),
                    button_ids \cup Range(Map(mode.buttons, ButtonId)))

MindMapModel_validate_ids_across_modes(m) ==
    (IF m.plan_id = "" THEN << <<"plan_id is required">> >> ELSE <<>>)
    \o (IF m.screen_id = "" THEN << <<"screen_id is required">> >> ELSE <<>>)
    \o (IF m.screen_name = "" THEN << <<"screen_name is required">> >> ELSE <<>>)
    \o (IF m.modes = <<>> THEN << <<"At least one mode is required">> >> ELSE <<>>)
    \o ValidateModesLoop_ids_across_modes(m.modes, {}, {}, {})

\* the variant without the empty-modes check
MindMapModel_validate_no_empty_check(m) ==
    (IF m.plan_id = "" THEN << <<"plan_id is required">> >> ELSE <<>>)
    \o (IF m.screen_id = "" THEN << <<"screen_id is required">> >> ELSE <<>>)
    \o (IF m.screen_name = "" THEN << <<"screen_name is required">> >> ELSE <<>>)
    \o ValidateModesLoop(m.modes, {})

MindMapModel_total_widgets(m) == SumSeq(Map(m.modes, LAMBDA mode : Len(mode.widgets)))

MindMapModel_total_buttons(m) == SumSeq(Map(m.modes, LAMBDA mode : Len(mode.buttons)))

MindMapModel_total_viewpoints(m) ==
    SumSeq(Map(m.modes, LAMBDA mode :
        SumSeq(Map(mode.widgets, LAMBDA w : Len(w.viewpoints)))
        + SumSeq(Map(mode.buttons, LAMBDA b : Len(b.viewpoints)))))

\* the dict entry get_breakdown() stores under a mode's name
\* the variant whose "total" leaves the fixed tests out
ModeBreakdown_total_without_fixed(mode) ==
    [fixed_tests |-> FixedTests_total(mode.fixed_tests),
     widget_tests |-> ModeTestPlan_widget_tests(mode),
     button_tests |-> ModeTestPlan_button_tests(mode),
     dt_tests |-> ModeTestPlan_dt_tests(mode),
     total |-> ModeTestPlan_widget_tests(mode) + ModeTestPlan_button_tests(mode)
               + ModeTestPlan_dt_tests(mode)]

ModeBreakdown(mode) ==
    [fixed_tests |-> FixedTests_total(mode.fixed_tests),
     widget_tests |-> ModeTestPlan_widget_tests(mode),
     button_tests |-> ModeTestPlan_button_tests(mode),
     dt_tests |-> ModeTestPlan_dt_tests(mode),
     total |-> ModeTestPlan_total_tests(mode)]

\* a dict filled by d[mode_name] = entry(mode) over the modes in order: a later
\* mode of the same name overwrites the entry of an earlier one
RECURSIVE DictByModeName(_, _, _)
DictByModeName(modes, entry(_), d) ==
    IF modes = <<>> THEN d
    ELSE DictByModeName(Tail(modes), entry,
                        (Head(modes).mode :> entry(Head(modes))) @@ d)

MindMapModel_get_breakdown(m) ==
    ("grand_total" :> MindMapModel_total_expected_tests(m))
    @@ DictByModeName(m.modes, ModeBreakdown, <<>>)

\* the entry get_detailed_breakdown() stores under a mode's name, over the
\* fields the entities keep here
DetailedModeBreakdown(mode) ==
    [fixed_tests |-> mode.fixed_tests,
     widgets |-> Map(mode.widgets, LAMBDA w :
                    [widget_type |-> w.widget_type, widget_id |-> w.widget_id,
                     tests |-> WidgetTestPlan_total_tests(w)]),
     buttons |-> Map(mode.buttons, LAMBDA b :
                    [button_id |-> b.button_id, tests |-> ButtonTestPlan_total_tests(b)]),
     decision_tables |-> Map(mode.decision_tables, LAMBDA dt :
                    [combinations |-> dt.combinations, tests |-> DTReference_total_tests(dt)]),
     subtotals |-> ModeBreakdown(mode)]

MindMapModel_get_detailed_breakdown(m) ==
    [screen_id |-> m.screen_id, screen_name |-> m.screen_name,
     modes |-> DictByModeName(m.modes, DetailedModeBreakdown, <<>>),
     version |-> m.version, screen_type |-> m.screen_type,
     totals |-> [viewpoints |-> MindMapModel_total_viewpoints(m),
                 widgets |-> MindMapModel_total_widgets(m),
                 buttons |-> MindMapModel_total_buttons(m),
                 expected_tests |-> MindMapModel_total_expected_tests(m)]]

\* the variant that stops at the first missing identifying field
MindMapModel_validate_first_missing_only(m) ==
    (IF m.plan_id = "" THEN << <<"plan_id is required">> >>
     ELSE IF m.screen_id = "" THEN << <<"screen_id is required">> >>
     ELSE IF m.screen_name = "" THEN << <<"screen_name is required">> >>
     ELSE <<>>)
    \o (IF m.modes = <<>> THEN << <<"At least one mode is required">> >> ELSE <<>>)
    \o ValidateModesLoop(m.modes, {})

MindMapModel_validate(m) ==
    (IF m.plan_id = "" THEN << <<"plan_id is required">> >> ELSE <<>>)
    \o (IF m.screen_id = "" THEN << <<"screen_id is required">> >> ELSE <<>>)
    \o (IF m.screen_name = "" THEN << <<"screen_name is required">> >> ELSE <<>>)
    \o (IF m.modes = <<>> THEN << <<"At least one mode is required">> >> ELSE <<>>)
    \o ValidateModesLoop(m.modes, {})

\* the variant that answers from the stored error list
MindMapModel_is_valid_from_stored_errors(m) == Len(m.validation_errors) = 0

MindMapModel_is_valid(m) == Len(MindMapModel_validate(m)) = 0

MindMapModel_has_errors(m) == Len(m.validation_errors) > 0

MindMapModel_has_warnings(m) == Len(m.validation_warnings) > 0

\* ModeTestPlan(validation_triggers=arg): the model is built by pydantic, which
\* validates a List[str] argument element by element into a list of its own
ModeTestPlan_validation_triggers_object(arg_object) == NewObject

\* the list create_mindmap_for_crud passes for a mode:
\* MODE_VALIDATION_TRIGGERS[ScreenMode.X.value]
create_mindmap_for_crud_triggers_arg(mode) == <<"MODE_VALIDATION_TRIGGERS", mode>>

create_empty_mindmap(plan_id, screen_id, screen_name) ==
    MindMapModel(plan_id, screen_id, screen_name, <<>>)

\* the variant that builds the EDIT plan from the ADD tables
create_mindmap_for_crud_edit_from_add(plan_id, screen_id, screen_name, include_list, include_add, include_edit) ==
    LET modes ==
            (IF include_list
             THEN << ModeTestPlan("LIST", MODE_VALIDATION_TRIGGERS["LIST"],
                                  FixedTests(LIST_MODE_FIXED_TESTS)) >>
             ELSE <<>>)
            \o (IF include_add
                THEN << ModeTestPlan("ADD", MODE_VALIDATION_TRIGGERS["ADD"],
                                     FixedTests(ADD_MODE_FIXED_TESTS)) >>
                ELSE <<>>)
            \o (IF include_edit
                THEN << ModeTestPlan("EDIT", MODE_VALIDATION_TRIGGERS["ADD"],
                                     FixedTests(ADD_MODE_FIXED_TESTS)) >>
                ELSE <<>>)
    IN  MindMapModel(plan_id, screen_id, screen_name, modes)

create_mindmap_for_crud(plan_id, screen_id, screen_name, include_list, include_add, include_edit) ==
    LET modes ==
            (IF include_list
             THEN << ModeTestPlan("LIST", MODE_VALIDATION_TRIGGERS["LIST"],
                                  FixedTests(LIST_MODE_FIXED_TESTS)) >>
             ELSE <<>>)
            \o (IF include_add
                THEN << ModeTestPlan("ADD", MODE_VALIDATION_TRIGGERS["ADD"],
                                     FixedTests(ADD_MODE_FIXED_TESTS)) >>
                ELSE <<>>)
            \o (IF include_edit
                THEN << ModeTestPlan("EDIT", MODE_VALIDATION_TRIGGERS["EDIT"],
                                     FixedTests(EDIT_MODE_FIXED_TESTS)) >>
                ELSE <<>>)
    IN  MindMapModel(plan_id, screen_id, screen_name, modes)

(***************************************************************************)
(* Construction and mutation of one aggregate.  The models are plain       *)
(* pydantic models without validate_assignment: every list is mutable in   *)
(* place and no mutation runs a check.                                     *)
(***************************************************************************)
PlanIdArgs == {"", "PLAN-001"}
ScreenIdArgs == {"", "SC-011"}
ScreenNameArgs == {"", "User Master"}
WidgetIdArgs == {"WGT-1", "WGT-2"}
ButtonIdArgs == {"BTN-1", "BTN-2"}
\* DTReference arguments: <<combinations, row_multiplier or nothing>>
DTArgs == {<<6, <<>>>>, <<-1, <<3>>>>}
Owners == {"widgets", "buttons"}

FactoryFixedTests ==
    {FixedTests(<<>>), FixedTests(LIST_MODE_FIXED_TESTS),
     FixedTests(ADD_MODE_FIXED_TESTS), FixedTests(EDIT_MODE_FIXED_TESTS)}

ViewpointSize(vp) == 1 + Len(vp.test_items)
WidgetSize(w) == 1 + Len(w.trigger_buttons) + SumSeq(Map(w.viewpoints, ViewpointSize))
ButtonSize(b) == 1 + SumSeq(Map(b.viewpoints, ViewpointSize))
ModeSize(m) ==
    SumSeq(Map(m.widgets, WidgetSize)) + SumSeq(Map(m.buttons, ButtonSize))
    + Len(m.decision_tables)
    + (IF m.fixed_tests \in FactoryFixedTests THEN 0 ELSE 1)
PlanSize(m) == SumSeq(Map(m.modes, ModeSize))

\* the variant in which an assignment is refused unless the result validates
Mutate_validating(new, bound) ==
    /\ PlanSize(new) <= bound
    /\ MindMapModel_is_valid(new)
    /\ mm' = new
    /\ ret' = NoRet
    /\ UNCHANGED <<call, heap>>

\* a mutation is explored while the aggregate it leaves stays within the bound
Mutate(new, bound) ==
    /\ PlanSize(new) <= bound
    /\ mm' = new
    /\ ret' = NoRet
    /\ UNCHANGED <<call, heap>>

\* mm.modes.append(ModeTestPlan(mode=mode))
AppendMode(modes, bound) ==
    \E mode \in modes :
        /\ Len(mm.modes) < MaxModes
        /\ Mutate([mm EXCEPT !.modes =
                      Append(@, ModeTestPlan(mode, <<>>, FixedTests(<<>>)))], bound)

\* del mm.modes[i]
RemoveMode(bound) ==
    \E i \in DOMAIN mm.modes :
        Mutate([mm EXCEPT !.modes = RemoveAt(@, i)], bound)

\* mm.modes[i].widgets.append(WidgetTestPlan(widget_id=id, widget_type=kind, ...))
AppendWidget(ids, kinds, bound) ==
    \E i \in DOMAIN mm.modes, id \in ids, kind \in kinds :
        Mutate([mm EXCEPT !.modes[i].widgets = Append(@, WidgetTestPlan(id, kind))],
               bound)

\* mm.modes[i].buttons.append(ButtonTestPlan(button_id=id, ...))
AppendButton(ids, bound) ==
    \E i \in DOMAIN mm.modes, id \in ids :
        Mutate([mm EXCEPT !.modes[i].buttons = Append(@, ButtonTestPlan(id))], bound)

\* del mm.modes[i].widgets[j]  /  del mm.modes[i].buttons[j]
RemoveWidgetOrButton(bound) ==
    \E i \in DOMAIN mm.modes, o \in Owners :
        \E j \in DOMAIN mm.modes[i][o] :
            Mutate([mm EXCEPT !.modes[i][o] = RemoveAt(@, j)], bound)

\* mm.modes[i].decision_tables.append(DTReference(combinations=c, ...))
AppendDecisionTable(args, bound) ==
    \E i \in DOMAIN mm.modes, a \in args :
        Mutate([mm EXCEPT !.modes[i].decision_tables =
                   Append(@, DTReference(a[1], a[2]))], bound)

\* del mm.modes[i].decision_tables[j]
RemoveDecisionTable(bound) ==
    \E i \in DOMAIN mm.modes :
        \E j \in DOMAIN mm.modes[i].decision_tables :
            Mutate([mm EXCEPT !.modes[i].decision_tables = RemoveAt(@, j)], bound)

\* mm.modes[i].widgets[j].viewpoints.append(ViewpointPlan(viewpoint_id=id, ...)),
\* and the same on a button
AppendViewpoint(ids, bound) ==
    \E i \in DOMAIN mm.modes, o \in Owners, id \in ids :
        \E j \in DOMAIN mm.modes[i][o] :
            Mutate([mm EXCEPT !.modes[i][o][j].viewpoints =
                       Append(@, ViewpointPlan(id))], bound)

\* del mm.modes[i].widgets[j].viewpoints[k], and the same on a button
RemoveViewpoint(bound) ==
    \E i \in DOMAIN mm.modes, o \in Owners :
        \E j \in DOMAIN mm.modes[i][o] :
            \E k \in DOMAIN mm.modes[i][o][j].viewpoints :
                Mutate([mm EXCEPT !.modes[i][o][j].viewpoints = RemoveAt(@, k)], bound)

\* ...viewpoints[k].test_items.append(TestItem(id=id, ...))
AppendTestItem(ids, bound) ==
    \E i \in DOMAIN mm.modes, o \in Owners, id \in ids :
        \E j \in DOMAIN mm.modes[i][o] :
            \E k \in DOMAIN mm.modes[i][o][j].viewpoints :
                Mutate([mm EXCEPT !.modes[i][o][j].viewpoints[k].test_items =
                           Append(@, TestItem(id))], bound)

\* del ...viewpoints[k].test_items[l]
RemoveTestItem(bound) ==
    \E i \in DOMAIN mm.modes, o \in Owners :
        \E j \in DOMAIN mm.modes[i][o] :
            \E k \in DOMAIN mm.modes[i][o][j].viewpoints :
                \E l \in DOMAIN mm.modes[i][o][j].viewpoints[k].test_items :
                    Mutate([mm EXCEPT !.modes[i][o][j].viewpoints[k].test_items =
                               RemoveAt(@, l)], bound)

\* mm.modes[i].widgets[j].trigger_buttons.append(t)
AppendTriggerButton(names, bound) ==
    \E i \in DOMAIN mm.modes, t \in names :
        \E j \in DOMAIN mm.modes[i].widgets :
            /\ Len(mm.modes[i].widgets[j].trigger_buttons) < MaxTriggerButtons
            /\ Mutate([mm EXCEPT !.modes[i].widgets[j].trigger_buttons = Append(@, t)],
                      bound)

\* mm.modes[i].fixed_tests.<category> = v
SetFixedTestCount(categories, counts, bound) ==
    \E i \in DOMAIN mm.modes, c \in categories, v \in counts :
        /\ mm.modes[i].fixed_tests[c] # v
        /\ Mutate([mm EXCEPT !.modes[i].fixed_tests[c] = v], bound)

\* an external checker records its outcome on the plan:
\* mm.validation_status = status; mm.validation_errors = errors; ...
SetValidationResult(statuses, errors, warnings, bound) ==
    \E st \in statuses, es \in errors, ws \in warnings :
        Mutate([mm EXCEPT !.validation_status = st, !.validation_errors = es,
                          !.validation_warnings = ws], bound)

(***************************************************************************)
(* Reads: each records what the caller gets back.                          *)
(***************************************************************************)
Return(r) == ret' = r /\ UNCHANGED <<mm, call, heap>>

\* the variant of validate() that also stores what it found on the plan
CallValidate_storing ==
    /\ ret' = [op |-> "validate", val |-> MindMapModel_validate(mm)]
    /\ mm' = [mm EXCEPT !.validation_errors = MindMapModel_validate(mm)]
    /\ UNCHANGED <<call, heap>>

CallValidate == Return([op |-> "validate", val |-> MindMapModel_validate(mm)])

CallIsValid == Return([op |-> "is_valid", val |-> MindMapModel_is_valid(mm)])

CallHasErrors == Return([op |-> "has_errors", val |-> MindMapModel_has_errors(mm)])

CallHasWarnings == Return([op |-> "has_warnings", val |-> MindMapModel_has_warnings(mm)])

ReadTotalExpectedTests ==
    Return([op |-> "total_expected_tests", val |-> MindMapModel_total_expected_tests(mm)])

ReadModeTotals ==
    \E i \in DOMAIN mm.modes :
        Return([op |-> "mode_totals", i |-> i,
                widget_tests |-> ModeTestPlan_widget_tests(mm.modes[i]),
                button_tests |-> ModeTestPlan_button_tests(mm.modes[i]),
                dt_tests |-> ModeTestPlan_dt_tests(mm.modes[i]),
                fixed_total |-> FixedTests_total(mm.modes[i].fixed_tests),
                total_tests |-> ModeTestPlan_total_tests(mm.modes[i])])

ReadWidgetTotalTests ==
    \E i \in DOMAIN mm.modes :
        \E j \in DOMAIN mm.modes[i].widgets :
            Return([op |-> "widget_total_tests", i |-> i, j |-> j,
                    val |-> WidgetTestPlan_total_tests(mm.modes[i].widgets[j])])

(***************************************************************************)
(* Spec: a plan with its identifying fields given, built out and edited    *)
(* and its counts read.                                                    *)
(***************************************************************************)
Init ==
    /\ call = NoCall
    /\ ret = NoRet
    /\ heap = HeapAtLoad
    /\ \/ mm = create_empty_mindmap("PLAN-001", "SC-011", "User Master")
       \/ \E l \in BOOLEAN, a \in BOOLEAN, e \in BOOLEAN :
            mm = create_mindmap_for_crud("PLAN-001", "SC-011", "User Master", l, a, e)

Next ==
    \/ AppendMode({"ADD"}, MaxPlanSize)
    \/ RemoveMode(MaxPlanSize)
    \/ AppendWidget({"WGT-1"}, {"EMAIL"}, MaxPlanSize)
    \/ AppendButton({"BTN-1"}, MaxPlanSize)
    \/ RemoveWidgetOrButton(MaxPlanSize)
    \/ AppendDecisionTable(DTArgs, MaxPlanSize)
    \/ RemoveDecisionTable(MaxPlanSize)
    \/ AppendViewpoint({"VP-1"}, MaxPlanSize)
    \/ RemoveViewpoint(MaxPlanSize)
    \/ AppendTestItem({"TI-1"}, MaxPlanSize)
    \/ RemoveTestItem(MaxPlanSize)
    \/ SetFixedTestCount({"gui_tests"}, {7}, MaxPlanSize)
    \/ ReadTotalExpectedTests
    \/ ReadModeTotals

Spec == Init /\ [][Next]_vars

(***************************************************************************)
(* SpecWidget: widgets of the factory-built modes, with their trigger      *)
(* names, viewpoints and test items, and their total_tests read.           *)
(***************************************************************************)
NextWidget ==
    \/ AppendWidget({"WGT-1"}, {"EMAIL", "LABEL"}, MaxWidgetPlanSize)
    \/ RemoveWidgetOrButton(MaxWidgetPlanSize)
    \/ AppendTriggerButton(TriggerNames, MaxWidgetPlanSize)
    \/ AppendViewpoint({"VP-1"}, MaxWidgetPlanSize)
    \/ AppendTestItem({"TI-1"}, MaxWidgetPlanSize)
    \/ ReadWidgetTotalTests

SpecWidget == Init /\ [][NextWidget]_vars

(***************************************************************************)
(* SpecValidate: a plan with any of its identifying fields missing, its    *)
(* modes, widgets and buttons appended and removed, and validate() and     *)
(* is_valid() called.                                                      *)
(***************************************************************************)
InitValidate ==
    /\ call = NoCall
    /\ ret = NoRet
    /\ heap = HeapAtLoad
    /\ \E p \in PlanIdArgs, s \in ScreenIdArgs, n \in ScreenNameArgs :
        \/ mm = create_empty_mindmap(p, s, n)
        \/ \E l \in BOOLEAN, a \in BOOLEAN, e \in BOOLEAN :
            mm = create_mindmap_for_crud(p, s, n, l, a, e)

NextValidate ==
    \/ AppendMode({"ADD"}, MaxCheckedPlanSize)
    \/ RemoveMode(MaxCheckedPlanSize)
    \/ AppendWidget(WidgetIdArgs, {"EMAIL"}, MaxCheckedPlanSize)
    \/ AppendButton(ButtonIdArgs, MaxCheckedPlanSize)
    \/ RemoveWidgetOrButton(MaxCheckedPlanSize)
    \/ CallValidate
    \/ CallIsValid

SpecValidate == InitValidate /\ [][NextValidate]_vars

(***************************************************************************)
(* SpecViewpoints: widgets and buttons are added to a plan with its        *)
(* identifying fields given, viewpoints are added to and removed from      *)
(* them, and validate() and is_valid() are called.                         *)
(***************************************************************************)
MaxViewpointPlanSize == 3    \* widgets, buttons and viewpoints of the plan
ViewpointIdArgs == {"VP-1", "VP-2"}

NextViewpoints ==
    \/ AppendWidget({"WGT-1"}, {"EMAIL"}, MaxViewpointPlanSize)
    \/ AppendButton({"BTN-1"}, MaxViewpointPlanSize)
    \/ AppendViewpoint(ViewpointIdArgs, MaxViewpointPlanSize)
    \/ RemoveViewpoint(MaxViewpointPlanSize)
    \/ CallValidate
    \/ CallIsValid

SpecViewpoints == Init /\ [][NextViewpoints]_vars

(***************************************************************************)
(* SpecProjection: a plan is built out and, between two changes, its read  *)
(* operations are called any number of times in any order.  ret keeps, for *)
(* every operation called since the last change, what its first call       *)
(* returned and what its latest call returned.                             *)
(***************************************************************************)
MaxProjectedPlanSize == 2

Project(name, value) ==
    /\ ret' = IF ret.op = "projections"
              THEN [op |-> "projections",
                    first |-> ret.first @@ (name :> value),
                    latest |-> (name :> value) @@ ret.latest]
              ELSE [op |-> "projections", first |-> (name :> value),
                    latest |-> (name :> value)]
    /\ UNCHANGED <<mm, call, heap>>

\* the variant of get_breakdown() that walks the modes by popping them
ProjectGetBreakdown_popping ==
    /\ ret' = IF ret.op = "projections"
              THEN [op |-> "projections",
                    first |-> ret.first @@ ("get_breakdown" :> MindMapModel_get_breakdown(mm)),
                    latest |-> ("get_breakdown" :> MindMapModel_get_breakdown(mm)) @@ ret.latest]
              ELSE [op |-> "projections",
                    first |-> ("get_breakdown" :> MindMapModel_get_breakdown(mm)),
                    latest |-> ("get_breakdown" :> MindMapModel_get_breakdown(mm))]
    /\ mm' = [mm EXCEPT !.modes = <<>>]
    /\ UNCHANGED <<call, heap>>

ProjectGetBreakdown == Project("get_breakdown", MindMapModel_get_breakdown(mm))

ProjectGetDetailedBreakdown ==
    Project("get_detailed_breakdown", MindMapModel_get_detailed_breakdown(mm))

ProjectTotalExpectedTests ==
    Project("total_expected_tests", MindMapModel_total_expected_tests(mm))

ProjectValidate == Project("validate", MindMapModel_validate(mm))

NextProjection ==
    \/ AppendMode({"ADD"}, MaxProjectedPlanSize)
    \/ RemoveMode(MaxProjectedPlanSize)
    \/ AppendWidget(WidgetIdArgs, {"EMAIL"}, MaxProjectedPlanSize)
    \/ AppendDecisionTable({<<6, <<>>>>}, MaxProjectedPlanSize)
    \/ AppendViewpoint({"VP-1"}, MaxProjectedPlanSize)
    \/ ProjectGetBreakdown
    \/ ProjectGetDetailedBreakdown
    \/ ProjectTotalExpectedTests
    \/ ProjectValidate

SpecProjection == Init /\ [][NextProjection]_vars

(***************************************************************************)
(* SpecReaders: a plan whose construction is complete is read by several   *)
(* threads at once.  Each read walks self.modes with a for-loop; a thread  *)
(* may be preempted between two rounds of the loop.  call holds, per       *)
(* thread, the frame of its pending read: the operation, the index of the  *)
(* loop and what the operation has built so far; ret holds, per thread,    *)
(* the result of its latest completed read.                                *)
(***************************************************************************)
MaxReaders == 2    \* threads reading the plan

Readers == 1..MaxReaders

\* the frame of a thread that is not inside a call
Idle == [pc |-> "idle"]

ReadOperations ==
    {"get_breakdown", "get_detailed_breakdown", "get_summary", "validate",
     "total_expected_tests"}

\* a widget with a viewpoint of one test item, and a decision table, put into
\* the first mode of a plan
WithContent(m) ==
    [m EXCEPT !.modes[1].widgets =
                  <<[WidgetTestPlan("WGT-1", "EMAIL") EXCEPT !.viewpoints =
                        <<[ViewpointPlan("VP-1") EXCEPT !.test_items = <<TestItem("TI-1")>>]>>]>>,
              !.modes[1].decision_tables = <<DTReference(6, <<>>)>>]

\* the plans handed to the readers: the factory's plans, bare and with
\* content, and a plan holding ADD mode twice
ReaderPlans ==
    LET factory(l, a, e) == create_mindmap_for_crud("PLAN-001", "SC-011", "User Master", l, a, e)
        made == {factory(l, a, e) : l \in BOOLEAN, a \in BOOLEAN, e \in BOOLEAN}
    IN  made \cup {WithContent(m) : m \in {p \in made : p.modes # <<>>}}
             \cup {[factory(FALSE, TRUE, FALSE) EXCEPT
                       !.modes = Append(@, ModeTestPlan("ADD", <<>>, FixedTests(<<>>)))]}

\* get_summary(), the entries before "breakdown"
SummaryHead(m) ==
    [plan_id |-> m.plan_id, screen_id |-> m.screen_id, screen_name |-> m.screen_name,
     modes |-> Map(m.modes, LAMBDA mode : mode.mode),
     version |-> m.version, screen_type |-> m.screen_type,
     validation_status |-> m.validation_status,
     mode_count |-> Len(m.modes),
     widget_count |-> MindMapModel_total_widgets(m),
     button_count |-> MindMapModel_total_buttons(m),
     viewpoint_count |-> MindMapModel_total_viewpoints(m),
     expected_test_count |-> MindMapModel_total_expected_tests(m),
     error_count |-> Len(m.validation_errors),
     warning_count |-> Len(m.validation_warnings)]

MindMapModel_get_summary(m) ==
    [name \in DOMAIN SummaryHead(m) \cup {"breakdown"} |->
        IF name = "breakdown" THEN MindMapModel_get_breakdown(m) ELSE SummaryHead(m)[name]]

\* what an operation has built when its loop over self.modes starts
ReadEnter(op, m) ==
    CASE op = "total_expected_tests" -> 0
      [] op = "get_breakdown" -> <<>>
      [] op = "get_detailed_breakdown" ->
             [MindMapModel_get_detailed_breakdown(m) EXCEPT !.modes = <<>>]
      [] op = "get_summary" -> [head |-> SummaryHead(m), breakdown |-> <<>>]
      [] op = "validate" ->
             [mode_names |-> {},
              errors |->
                  (IF m.plan_id = "" THEN << <<"plan_id is required">> >> ELSE <<>>)
                  \o (IF m.screen_id = "" THEN << <<"screen_id is required">> >> ELSE <<>>)
                  \o (IF m.screen_name = "" THEN << <<"screen_name is required">> >> ELSE <<>>)
                  \o (IF m.modes = <<>> THEN << <<"At least one mode is required">> >> ELSE <<>>)]

\* one round of the loop, on the mode the loop has reached
ReadRound(op, built, mode) ==
    CASE op = "total_expected_tests" -> built + ModeTestPlan_total_tests(mode)
      [] op = "get_breakdown" -> (mode.mode :> ModeBreakdown(mode)) @@ built
      [] op = "get_detailed_breakdown" ->
             [built EXCEPT !.modes = (mode.mode :> DetailedModeBreakdown(mode)) @@ @]
      [] op = "get_summary" ->
             [built EXCEPT !.breakdown = (mode.mode :> ModeBreakdown(mode)) @@ @]
      [] op = "validate" ->
             [mode_names |-> built.mode_names \cup {mode.mode},
              errors |-> built.errors
                         \o (IF mode.mode \in built.mode_names
                             THEN << <<"Duplicate mode: ", mode.mode>> >> ELSE <<>>)
                         \o MindMapModel_validate_mode(mode)]

\* what the operation returns when the loop is over
ReadReturn(op, built, m) ==
    CASE op = "total_expected_tests" -> built
      [] op = "get_breakdown" ->
             ("grand_total" :> MindMapModel_total_expected_tests(m)) @@ built
      [] op = "get_detailed_breakdown" -> built
      [] op = "get_summary" ->
             [name \in DOMAIN built.head \cup {"breakdown"} |->
                 IF name = "breakdown"
                 THEN ("grand_total" :> MindMapModel_total_expected_tests(m)) @@ built.breakdown
                 ELSE built.head[name]]
      [] op = "validate" -> built.errors

\* what the operation returns to a caller that is alone
ReadAlone(op, m) ==
    CASE op = "total_expected_tests" -> MindMapModel_total_expected_tests(m)
      [] op = "get_breakdown" -> MindMapModel_get_breakdown(m)
      [] op = "get_detailed_breakdown" -> MindMapModel_get_detailed_breakdown(m)
      [] op = "get_summary" -> MindMapModel_get_summary(m)
      [] op = "validate" -> MindMapModel_validate(m)

InitReaders ==
    /\ mm \in ReaderPlans
    /\ heap = HeapAtLoad
    /\ call = [t \in Readers |-> Idle]
    /\ ret = [t \in Readers |-> NoRet]

\* a thread calls one of the read operations
ReaderCall(t) ==
    /\ call[t] = Idle
    /\ \E op \in ReadOperations :
           call' = [call EXCEPT ![t] = [i |-> 1, op |-> op, pc |-> "for mode in self.modes",
                                        built |-> ReadEnter(op, mm)]]
    /\ ret' = [ret EXCEPT ![t] = NoRet]
    /\ UNCHANGED <<mm, heap>>

\* the variant of a round that takes the mode it reads off the list
ReaderRound_popping(t) ==
    /\ call[t].pc = "for mode in self.modes"
    /\ call[t].i <= Len(mm.modes)
    /\ call' = [call EXCEPT ![t].built = ReadRound(call[t].op, @, mm.modes[1])]
    /\ mm' = [mm EXCEPT !.modes = Tail(@)]
    /\ UNCHANGED <<ret, heap>>

\* one round of the thread's loop
ReaderRound(t) ==
    /\ call[t].pc = "for mode in self.modes"
    /\ call[t].i <= Len(mm.modes)
    /\ call' = [call EXCEPT ![t].built = ReadRound(call[t].op, @, mm.modes[call[t].i]),
                            ![t].i = @ + 1]
    /\ UNCHANGED <<mm, ret, heap>>

\* the loop is over and the operation returns
ReaderReturn(t) ==
    /\ call[t].pc = "for mode in self.modes"
    /\ call[t].i > Len(mm.modes)
    /\ ret' = [ret EXCEPT ![t] = [op |-> call[t].op,
                                  val |-> ReadReturn(call[t].op, call[t].built, mm)]]
    /\ call' = [call EXCEPT ![t] = Idle]
    /\ UNCHANGED <<mm, heap>>

NextReaders ==
    \/ \E t \in Readers : ReaderCall(t)
    \/ \E t \in Readers : ReaderRound(t)
    \/ \E t \in Readers : ReaderReturn(t)

SpecReaders == InitReaders /\ [][NextReaders]_vars

(***************************************************************************)
(* SpecStored: the stored validation outcome next to the structural check. *)
(* An external checker writes validation_status, validation_errors and     *)
(* validation_warnings; the plan's modes are added and removed; validate,  *)
(* is_valid, has_errors and has_warnings are called.                       *)
(***************************************************************************)
StatusArgs == {"passed", "failed"}
StoredErrorArgs == {<<>>, <<"E-001 missing viewpoint">>}
StoredWarningArgs == {<<>>, <<"W-001 low coverage">>}

NextStored ==
    \/ AppendMode({"ADD"}, MaxCheckedPlanSize)
    \/ RemoveMode(MaxCheckedPlanSize)
    \/ SetValidationResult(StatusArgs, StoredErrorArgs, StoredWarningArgs, MaxCheckedPlanSize)
    \/ CallValidate
    \/ CallIsValid
    \/ CallHasErrors
    \/ CallHasWarnings

SpecStored == InitValidate /\ [][NextStored]_vars

(***************************************************************************)
(* SpecCatalog: the catalog in use.  Lookups are called, plans are built   *)
(* by create_mindmap_for_crud, and what the caller got back is edited in   *)
(* place: the dict of get_mode_fixed_tests, the list of                    *)
(* get_applicable_modes, a mode plan's validation_triggers and fixed       *)
(* tests.  An edit of an object that is an object of the catalog is an     *)
(* edit of the catalog.  The caller keeps the latest plan (mm) and the     *)
(* latest returned value (ret).                                            *)
(***************************************************************************)
MaxEditedListLen == 5    \* appends to a returned list stop at this length
MaxEditedPlanSize == 1   \* edited fixed-test bundles of the plan the caller keeps

RoleArgs == {"System_Admin", "Backoffice", "Operator", "Auditor"}

Drop(holder) == {s \in heap.shared : s.holder # holder}

Hold(holder, index, object) ==
    IF object = NewObject THEN {}
    ELSE {[holder |-> holder, index |-> index, object |-> object]}

\* the catalog after the object held by holder at index has been given value
WriteThrough(holder, index, value) ==
    LET objects == {s.object : s \in {t \in heap.shared :
                                        t.holder = holder /\ t.index = index}}
    IN  IF objects = {} THEN heap.catalog
        ELSE LET o == CHOOSE x \in objects : TRUE
             IN  IF o[2] = "" THEN [heap.catalog EXCEPT ![o[1]] = value]
                 ELSE [heap.catalog EXCEPT ![o[1]][o[2]] = value]

Lookup(c, value, object) ==
    /\ call' = c
    /\ ret' = [op |-> c.fn, val |-> value]
    /\ heap' = [heap EXCEPT !.shared = Drop("ret") \cup Hold("ret", 0, object)]
    /\ UNCHANGED mm

LookupWidgetTestCount ==
    \E k \in WidgetTypeArgs :
        Lookup([widget_type |-> k, fn |-> "get_widget_test_count"],
               get_widget_test_count(k), NewObject)

LookupApplicableModes ==
    \E k \in WidgetTypeArgs :
        Lookup([widget_type |-> k, fn |-> "get_applicable_modes"],
               get_applicable_modes(k), get_applicable_modes_object(k))

LookupModeFixedTests ==
    \E m \in ModeArgs :
        Lookup([mode |-> m, fn |-> "get_mode_fixed_tests"],
               get_mode_fixed_tests(m), get_mode_fixed_tests_object(m))

LookupDtTestCount ==
    \E m \in ModeArgs, r \in RoleArgs :
        Lookup([mode |-> m, role_context |-> r, fn |-> "get_dt_test_count"],
               get_dt_test_count(m, r), NewObject)

LookupCalculateTriggerTests ==
    \E k \in {"EMAIL", "SLIDER"}, t \in {<<>>, <<"Save">>, <<"Search", "Save">>},
       m \in ModeArgs :
        Lookup([widget_type |-> k, trigger_buttons |-> t, mode |-> m,
                fn |-> "calculate_trigger_tests"],
               calculate_trigger_tests(k, t, m), NewObject)

CallCreateMindmapForCrud ==
    \E p \in {"PLAN-001"}, s \in {"SC-011"}, n \in {"User Master"},
       l \in BOOLEAN, a \in BOOLEAN, e \in BOOLEAN :
        LET plan == create_mindmap_for_crud(p, s, n, l, a, e)
        IN  /\ call' = [fn |-> "create_mindmap_for_crud", plan_id |-> p,
                        screen_id |-> s, screen_name |-> n, include_list |-> l,
                        include_add |-> a, include_edit |-> e]
            /\ mm' = plan
            /\ ret' = [op |-> "create_mindmap_for_crud"]
            /\ heap' = [heap EXCEPT !.shared =
                    (Drop("ret") \cap Drop("mm"))
                    \cup UNION {Hold("mm", i,
                            ModeTestPlan_validation_triggers_object(
                                create_mindmap_for_crud_triggers_arg(plan.modes[i].mode)))
                                : i \in DOMAIN plan.modes}]

\* d = get_mode_fixed_tests(mode); d[c] = v
EditReturnedDict ==
    /\ ret.op \in {"get_mode_fixed_tests", "edited dict"}
    /\ \E c \in {"gui_tests", "smoke_tests"}, v \in {99} :
           LET d == (c :> v) @@ ret.val
           IN  /\ d # ret.val
               /\ ret' = [op |-> "edited dict", val |-> d]
               /\ heap' = [heap EXCEPT !.catalog = WriteThrough("ret", 0, d)]
    /\ UNCHANGED <<mm, call>>

\* modes = get_applicable_modes(kind); modes.append("VIEW")
EditReturnedList ==
    /\ ret.op \in {"get_applicable_modes", "edited list"}
    /\ Len(ret.val) < MaxEditedListLen
    /\ LET modes == Append(ret.val, "VIEW")
       IN  /\ ret' = [op |-> "edited list", val |-> modes]
           /\ heap' = [heap EXCEPT !.catalog = WriteThrough("ret", 0, modes)]
    /\ UNCHANGED <<mm, call>>

\* mm.modes[i].validation_triggers.append(name), for a name not yet in the list
AppendValidationTrigger ==
    \E i \in DOMAIN mm.modes, name \in {"Cancel"} :
        /\ name \notin Range(mm.modes[i].validation_triggers)
        /\ LET triggers == Append(mm.modes[i].validation_triggers, name)
           IN  /\ mm' = [mm EXCEPT !.modes[i].validation_triggers = triggers]
               /\ heap' = [heap EXCEPT !.catalog = WriteThrough("mm", i, triggers)]
        /\ ret' = NoRet
        /\ UNCHANGED call

InitCatalog ==
    /\ mm = NoPlan
    /\ call = NoCall
    /\ ret = NoRet
    /\ heap = HeapAtLoad

NextCatalog ==
    \/ LookupWidgetTestCount
    \/ LookupApplicableModes
    \/ LookupModeFixedTests
    \/ LookupDtTestCount
    \/ LookupCalculateTriggerTests
    \/ CallCreateMindmapForCrud
    \/ EditReturnedDict
    \/ EditReturnedList
    \/ AppendValidationTrigger
    \/ SetFixedTestCount({"gui_tests"}, {7}, MaxEditedPlanSize)

SpecCatalog == InitCatalog /\ [][NextCatalog]_vars

(***************************************************************************)
(* Serialization.  The models are pydantic models: model_dump_json writes  *)
(* the declared fields of a model in their declared order, a nested model  *)
(* as a nested object, a list as an array, an enum field as its value and  *)
(* None as null; model_validate_json reads the fields back by name, fills  *)
(* a field that is absent with its default and builds the models through   *)
(* their constructors.  A document is a sequence of <<name, value>> pairs; *)
(* only the fields the entities keep here are written.                     *)
(***************************************************************************)
JsonNull == "null"

\* whether a document has a field, and the value stored under it
JsonHas(doc, name) == \E i \in DOMAIN doc : doc[i][1] = name

JsonGet(doc, name) == doc[CHOOSE i \in DOMAIN doc : doc[i][1] = name][2]

\* the declared order of the FixedTests fields
FixedTestsFields ==
    <<"role_access_tests", "search_tests", "pagination_tests", "sort_tests",
      "reset_tests", "export_tests", "screen_transition_tests",
      "concurrent_tests", "db_error_tests", "double_click_tests", "gui_tests">>

TestItem_dump(t) == << <<"id", t.id>> >>

TestItem_load(doc) == TestItem(JsonGet(doc, "id"))

ViewpointPlan_dump(vp) ==
    << <<"viewpoint_id", vp.viewpoint_id>>,
       <<"test_items", Map(vp.test_items, TestItem_dump)>> >>

ViewpointPlan_load(doc) ==
    [ViewpointPlan(JsonGet(doc, "viewpoint_id")) EXCEPT
        !.test_items = IF JsonHas(doc, "test_items")
                       THEN Map(JsonGet(doc, "test_items"), TestItem_load) ELSE @]

WidgetTestPlan_dump(w) ==
    << <<"widget_id", w.widget_id>>, <<"widget_type", w.widget_type>>,
       <<"viewpoints", Map(w.viewpoints, ViewpointPlan_dump)>>,
       <<"trigger_buttons", w.trigger_buttons>> >>

WidgetTestPlan_load(doc) ==
    [WidgetTestPlan(JsonGet(doc, "widget_id"),
                    CHOOSE member \in WidgetType : member = JsonGet(doc, "widget_type"))
     EXCEPT
        !.viewpoints = IF JsonHas(doc, "viewpoints")
                       THEN Map(JsonGet(doc, "viewpoints"), ViewpointPlan_load) ELSE @,
        !.trigger_buttons = IF JsonHas(doc, "trigger_buttons")
                            THEN JsonGet(doc, "trigger_buttons") ELSE @]

ButtonTestPlan_dump(b) ==
    << <<"button_id", b.button_id>>,
       <<"viewpoints", Map(b.viewpoints, ViewpointPlan_dump)>> >>

ButtonTestPlan_load(doc) ==
    [ButtonTestPlan(JsonGet(doc, "button_id")) EXCEPT
        !.viewpoints = IF JsonHas(doc, "viewpoints")
                       THEN Map(JsonGet(doc, "viewpoints"), ViewpointPlan_load) ELSE @]

DTReference_dump(dt) ==
    << <<"combinations", dt.combinations>>, <<"row_multiplier", dt.row_multiplier>> >>

\* the variant that does not read row_multiplier back
DTReference_load_default_multiplier(doc) ==
    DTReference(JsonGet(doc, "combinations"), <<>>)

DTReference_load(doc) ==
    DTReference(JsonGet(doc, "combinations"),
                IF JsonHas(doc, "row_multiplier")
                THEN <<JsonGet(doc, "row_multiplier")>> ELSE <<>>)

FixedTests_dump(ft) == Map(FixedTestsFields, LAMBDA c : <<c, ft[c]>>)

FixedTests_load(doc) ==
    FixedTests([c \in {doc[i][1] : i \in DOMAIN doc} |-> JsonGet(doc, c)])

ModeTestPlan_dump(m) ==
    << <<"mode", m.mode>>,
       <<"widgets", Map(m.widgets, WidgetTestPlan_dump)>>,
       <<"buttons", Map(m.buttons, ButtonTestPlan_dump)>>,
       <<"decision_tables", Map(m.decision_tables, DTReference_dump)>>,
       <<"fixed_tests", FixedTests_dump(m.fixed_tests)>>,
       <<"validation_triggers", m.validation_triggers>> >>

ModeTestPlan_load(doc) ==
    [ModeTestPlan(CHOOSE member \in ScreenMode : member = JsonGet(doc, "mode"),
                  IF JsonHas(doc, "validation_triggers")
                  THEN JsonGet(doc, "validation_triggers") ELSE <<>>,
                  IF JsonHas(doc, "fixed_tests")
                  THEN FixedTests_load(JsonGet(doc, "fixed_tests")) ELSE FixedTests(<<>>))
     EXCEPT
        !.widgets = IF JsonHas(doc, "widgets")
                    THEN Map(JsonGet(doc, "widgets"), WidgetTestPlan_load) ELSE @,
        !.buttons = IF JsonHas(doc, "buttons")
                    THEN Map(JsonGet(doc, "buttons"), ButtonTestPlan_load) ELSE @,
        !.decision_tables = IF JsonHas(doc, "decision_tables")
                            THEN Map(JsonGet(doc, "decision_tables"), DTReference_load)
                            ELSE @]

MindMapModel_dump(m) ==
    << <<"version", m.version>>, <<"plan_id", m.plan_id>>,
       <<"screen_id", m.screen_id>>, <<"screen_name", m.screen_name>>,
       <<"screen_type", m.screen_type>>,
       <<"modes", Map(m.modes, ModeTestPlan_dump)>>,
       <<"validation_status",
         IF m.validation_status = "None" THEN JsonNull ELSE <<m.validation_status>> >>,
       <<"validation_errors", m.validation_errors>>,
       <<"validation_warnings", m.validation_warnings>> >>

MindMapModel_load(doc) ==
    [MindMapModel(JsonGet(doc, "plan_id"), JsonGet(doc, "screen_id"),
                  JsonGet(doc, "screen_name"),
                  IF JsonHas(doc, "modes")
                  THEN Map(JsonGet(doc, "modes"), ModeTestPlan_load) ELSE <<>>)
     EXCEPT
        !.version = IF JsonHas(doc, "version") THEN JsonGet(doc, "version") ELSE @,
        !.validation_status =
            IF JsonHas(doc, "validation_status")
               /\ JsonGet(doc, "validation_status") # JsonNull
            THEN JsonGet(doc, "validation_status")[1] ELSE @,
        !.validation_errors = IF JsonHas(doc, "validation_errors")
                              THEN JsonGet(doc, "validation_errors") ELSE @,
        !.validation_warnings = IF JsonHas(doc, "validation_warnings")
                                THEN JsonGet(doc, "validation_warnings") ELSE @]

(***************************************************************************)
(* SpecRoundTrip: a plan is built out; it is written, the document is read *)
(* back, and the plan read back is written again.                          *)
(***************************************************************************)
MaxSerializedPlanSize == 3

CallModelDumpJson == Return([op |-> "model_dump_json", first |-> MindMapModel_dump(mm)])

CallModelValidateJson ==
    /\ ret.op = "model_dump_json"
    /\ Return([op |-> "model_validate_json", first |-> ret.first,
               loaded |-> MindMapModel_load(ret.first)])

CallModelDumpJsonAgain ==
    /\ ret.op = "model_validate_json"
    /\ Return([op |-> "model_dump_json again", first |-> ret.first,
               loaded |-> ret.loaded, second |-> MindMapModel_dump(ret.loaded)])

NextRoundTrip ==
    \/ AppendMode({"ADD"}, MaxSerializedPlanSize)
    \/ AppendWidget({"WGT-1"}, {"EMAIL"}, MaxSerializedPlanSize)
    \/ AppendDecisionTable(DTArgs, MaxSerializedPlanSize)
    \/ AppendViewpoint({"VP-1"}, MaxSerializedPlanSize)
    \/ AppendTestItem({"TI-1"}, MaxSerializedPlanSize)
    \/ SetValidationResult({"failed"}, {<<"E-001 missing viewpoint">>}, {<<>>}, MaxSerializedPlanSize)
    \/ CallModelDumpJson
    \/ CallModelValidateJson
    \/ CallModelDumpJsonAgain

SpecRoundTrip == Init /\ [][NextRoundTrip]_vars

(***************************************************************************)
(* client.py: DataStoreClient.generate_embeddings under retry_with_backoff *)
(* call holds the client, the arguments and the wrapper's loop state: the  *)
(* for-loop variable attempt, the outcome of every request made so far and *)
(* the sleeps taken; ret stays NoRet until the wrapper returns or raises.  *)
(***************************************************************************)
MaxClientRetries == 4    \* DataStoreClient(max_retries=n) for n in 1..MaxClientRetries

\* @retry_with_backoff(max_retries=3) on generate_embeddings
DecoratorMaxRetries == 3

RetryableErrors == {"DataStoreConnectionError", "DataStoreTimeoutError"}

\* what one call of _make_request does: it returns the decoded body (with or
\* without an "embeddings" key) or raises
RequestOutcomes ==
    {[raised |-> "none", data |-> [embeddings |-> << <<1, 2>> >>]],
     [raised |-> "none", data |-> [status |-> "ok"]],
     [raised |-> "DataStoreConnectionError"],
     [raised |-> "DataStoreTimeoutError"],
     [raised |-> "DataStoreAPIError"],
     [raised |-> "DataStoreNotFoundError"]}

\* the variant whose loop is one round short
AttemptRange_one_short(max_retries) == 0..(max_retries - 2)

\* range(max_retries)
AttemptRange(max_retries) == 0..(max_retries - 1)

\* data.get("embeddings", [])
generate_embeddings_result(data) == DictGet(data, "embeddings", <<>>)

InitRetry ==
    /\ mm = NoPlan
    /\ heap = HeapAtLoad
    /\ ret = NoRet
    /\ \E n \in 1..MaxClientRetries :
           call = [fn |-> "generate_embeddings", client_max_retries |-> n,
                   texts |-> <<"test">>, attempt |-> 0, outcomes |-> <<>>,
                   slept |-> <<>>]

\* one round of the wrapper's loop: func(self, ...) makes its request; a
\* result is returned, a connection or timeout error is kept as
\* last_exception (followed by a sleep of base_delay * 2 ** attempt unless
\* this was round max_retries - 1) and any other error propagates; when the
\* loop runs out, last_exception is raised.  Sleeps are in units of base_delay.
WrapperAttempt ==
    /\ call.fn = "generate_embeddings"
    /\ ret = NoRet
    /\ call.attempt \in AttemptRange(DecoratorMaxRetries)
    /\ \E o \in RequestOutcomes :
           LET made == Append(call.outcomes, o)
           IN  IF o.raised = "none"
               THEN /\ call' = [call EXCEPT !.outcomes = made]
                    /\ ret' = [op |-> "generate_embeddings",
                               val |-> generate_embeddings_result(o.data),
                               raised |-> "none"]
               ELSE IF o.raised \in RetryableErrors
               THEN /\ call' = [call EXCEPT
                                   !.outcomes = made,
                                   !.attempt = @ + 1,
                                   !.slept = IF call.attempt < DecoratorMaxRetries - 1
                                             THEN Append(@, 2 ^ call.attempt) ELSE @]
                    /\ ret' = IF call.attempt + 1 \in AttemptRange(DecoratorMaxRetries)
                              THEN NoRet
                              ELSE [op |-> "generate_embeddings", raised |-> o.raised]
               ELSE /\ call' = [call EXCEPT !.outcomes = made]
                    /\ ret' = [op |-> "generate_embeddings", raised |-> o.raised]
    /\ UNCHANGED <<mm, heap>>

NextRetry == WrapperAttempt

SpecRetry == InitRetry /\ [][NextRetry]_vars

(***************************************************************************)
(* client.py: DataStoreClient.add_documents under retry_with_backoff.      *)
(* The decorated function walks the batch and makes one _make_request per  *)
(* document; the wrapper calls the whole function again after a connection *)
(* or timeout error.  call holds the batch size, the wrapper's attempt,    *)
(* the position doc of the function's for-loop, the function's local       *)
(* all_chunks (its length), and what went over the wire: sent is the       *)
(* document of every request made, in order, answered the document of      *)
(* every request that the service processed and answered, in order, and    *)
(* returned the number of chunks that the responses carried.               *)
(***************************************************************************)
MaxDocuments == 3            \* len(documents) in 0..MaxDocuments
MaxChunksPerDocument == 2    \* len(data.get("chunks", [])) of one response

\* the function's first statements: all_chunks = [], the loop starts
AddDocumentsEntry(c) == [c EXCEPT !.doc = 1, !.all_chunks = 0]

InitAddDocuments ==
    /\ mm = NoPlan
    /\ heap = HeapAtLoad
    /\ ret = NoRet
    /\ \E n \in 0..MaxDocuments :
           call = [fn |-> "add_documents", doc |-> 1, attempt |-> 0,
                   all_chunks |-> 0, documents |-> n, sent |-> <<>>,
                   answered |-> <<>>, returned |-> 0]

\* the for-loop over documents is exhausted
AddDocumentsAtEnd(c) == c.doc > c.documents

\* one request of the loop.  A response extends all_chunks and moves to the
\* next document; after the last document the function returns
\* DocumentProcessResult(chunks_count=len(all_chunks), status="processed").
\* A connection or timeout error leaves the function: the wrapper sleeps
\* and calls it again from its first statement or, in round
\* max_retries - 1, raises the error.  Any other error propagates.
AddDocumentsRequest ==
    /\ call.fn = "add_documents"
    /\ ret = NoRet
    /\ call.attempt \in AttemptRange(DecoratorMaxRetries)
    /\ call.doc <= call.documents
    /\ \E o \in {[raised |-> "none", chunks |-> k] : k \in 0..MaxChunksPerDocument}
               \cup {[raised |-> e] : e \in RetryableErrors \cup {"DataStoreAPIError"}} :
           LET made == [call EXCEPT !.sent = Append(@, call.doc)]
           IN  IF o.raised = "none"
               THEN LET next == [made EXCEPT !.doc = @ + 1,
                                             !.all_chunks = @ + o.chunks,
                                             !.answered = Append(@, call.doc),
                                             !.returned = @ + o.chunks]
                    IN  /\ call' = next
                        /\ ret' = IF AddDocumentsAtEnd(next)
                                  THEN [op |-> "add_documents", raised |-> "none",
                                        status |-> "processed",
                                        chunks_count |-> next.all_chunks]
                                  ELSE NoRet
               ELSE IF o.raised \in RetryableErrors
               THEN IF call.attempt + 1 \in AttemptRange(DecoratorMaxRetries)
                    THEN /\ call' = AddDocumentsEntry([made EXCEPT !.attempt = @ + 1])
                         /\ ret' = NoRet
                    ELSE /\ call' = [made EXCEPT !.attempt = @ + 1]
                         /\ ret' = [op |-> "add_documents", raised |-> o.raised]
               ELSE /\ call' = made
                    /\ ret' = [op |-> "add_documents", raised |-> o.raised]
    /\ UNCHANGED <<mm, heap>>

\* an empty batch: the loop makes no request and documents[0] in the return
\* statement raises IndexError, which the wrapper does not catch
AddDocumentsEmptyBatch ==
    /\ call.fn = "add_documents"
    /\ ret = NoRet
    /\ call.documents = 0
    /\ ret' = [op |-> "add_documents", raised |-> "IndexError"]
    /\ UNCHANGED <<mm, call, heap>>

NextAddDocuments ==
    \/ AddDocumentsRequest
    \/ AddDocumentsEmptyBatch

SpecAddDocuments == InitAddDocuments /\ [][NextAddDocuments]_vars

(***************************************************************************)
(* celery_client/client.py: the shared Celery app.  heap holds the module  *)
(* global _celery_app (None or an app) and the number of apps made by      *)
(* Celery(...) since the global was last set from outside; call holds,    *)
(* per thread, the frame of its pending CeleryClient() or                  *)
(* get_shared_celery_app() call; ret holds what the                        *)
(* calls gave since the global was last set from outside (by               *)
(* reset_shared_celery_app or initialize_celery_client): the apps          *)
(* returned by get_shared_celery_app and the apps held by the clients      *)
(* constructed.  The functions take no lock, so a thread may be preempted  *)
(* between any two reads or writes of the global.                          *)
(***************************************************************************)
MaxCeleryThreads == 2    \* threads calling into the module
MaxCeleryCalls == 3      \* calls started since the global was last set from outside

CeleryThreads == 1..MaxCeleryThreads

\* an object is named by its class and a number
None == <<"None", 0>>

\* the app of the microservice handed to initialize_celery_client
ExistingApp == <<"celery_app", 0>>

NoCeleryResults == [returned |-> {}, clients |-> {}, started |-> 0, initialized |-> FALSE]

InitCelery ==
    /\ mm = NoPlan
    /\ heap = [made |-> 0, celery_app |-> None]
    /\ call = [t \in CeleryThreads |-> Idle]
    /\ ret = NoCeleryResults

\* CeleryClient(config) enters get_shared_celery_app(self._config), or
\* get_shared_celery_app(config) is called directly
CallGetSharedCeleryApp(t) ==
    /\ call[t] = Idle
    /\ ret.started < MaxCeleryCalls
    /\ \E caller \in {"CeleryClient", "get_shared_celery_app"} :
           call' = [call EXCEPT ![t] = [pc |-> "if _celery_app is None", caller |-> caller]]
    /\ ret' = [ret EXCEPT !.started = @ + 1]
    /\ UNCHANGED <<mm, heap>>

\* if _celery_app is None
GetSharedTest(t) ==
    /\ call[t].pc = "if _celery_app is None"
    /\ call' = [call EXCEPT ![t].pc = IF heap.celery_app = None
                                      THEN "_celery_app = Celery(...)"
                                      ELSE "return _celery_app"]
    /\ UNCHANGED <<mm, ret, heap>>

\* _celery_app = Celery("celery_client", broker=..., backend=...)
GetSharedCreate(t) ==
    /\ call[t].pc = "_celery_app = Celery(...)"
    /\ heap' = [made |-> heap.made + 1, celery_app |-> <<"Celery", heap.made + 1>>]
    /\ call' = [call EXCEPT ![t].pc = "_celery_app.conf.update(...)"]
    /\ UNCHANGED <<mm, ret>>

\* _celery_app.conf.update(...): configures the app that the global names now
GetSharedConfigure(t) ==
    /\ call[t].pc = "_celery_app.conf.update(...)"
    /\ call' = [call EXCEPT ![t].pc = "return _celery_app"]
    /\ UNCHANGED <<mm, ret, heap>>

\* return _celery_app; in CeleryClient.__init__ the result becomes self._celery
GetSharedReturn(t) ==
    /\ call[t].pc = "return _celery_app"
    /\ ret' = [ret EXCEPT !.returned = @ \cup {heap.celery_app},
                          !.clients = IF call[t].caller = "CeleryClient"
                                      THEN @ \cup {heap.celery_app} ELSE @]
    /\ call' = [call EXCEPT ![t] = Idle]
    /\ UNCHANGED <<mm, heap>>

\* reset_shared_celery_app(), called while no thread is inside the module
ResetSharedCeleryApp ==
    /\ \A t \in CeleryThreads : call[t] = Idle
    /\ heap' = [made |-> 0, celery_app |-> None]
    /\ ret' = NoCeleryResults
    /\ UNCHANGED <<mm, call>>

\* initialize_celery_client(celery_app), called while no thread is inside
\* the module
InitializeCeleryClient ==
    /\ \A t \in CeleryThreads : call[t] = Idle
    /\ heap' = [made |-> 0, celery_app |-> ExistingApp]
    /\ ret' = [NoCeleryResults EXCEPT !.initialized = TRUE]
    /\ UNCHANGED <<mm, call>>

NextCelery ==
    \/ \E t \in CeleryThreads : CallGetSharedCeleryApp(t)
    \/ \E t \in CeleryThreads : GetSharedTest(t)
    \/ \E t \in CeleryThreads : GetSharedCreate(t)
    \/ \E t \in CeleryThreads : GetSharedConfigure(t)
    \/ \E t \in CeleryThreads : GetSharedReturn(t)
    \/ ResetSharedCeleryApp
    \/ InitializeCeleryClient

SpecCelery == InitCelery /\ [][NextCelery]_vars

(***************************************************************************)
(* consul_client.py: ConsulClient.get.  heap holds the fields of the       *)
(* client (_enabled, _available, _cache) and what the client reads from    *)
(* outside: the clock, the keys the Consul KV store holds, whether the     *)
(* Consul server answers, and os.environ.  A cache entry is the pair       *)
(* (value, timestamp) of the code; next to it the entry records for which  *)
(* path and key it was stored.  ret keeps the result of the latest get     *)
(* together with heap as it was when the call was made.                    *)
(***************************************************************************)
MaxClock == 3    \* time.time() runs over 0..MaxClock
CacheTtl == 2    \* CONSUL_CACHE_TTL, in ticks of the clock

\* CONSUL_BASE_PATH
BasePath == "cfg"

\* the (path, key) pairs that are looked up; "cfg:A" is a custom path
LookupArgs == {<<BasePath, "B">>, <<BasePath, "A:B">>, <<"cfg:A", "B">>}

\* f"{path}/{key}"
FullKey(path, key) == path \o "/" \o key

\* f"{path}:{key}"
CacheKey(path, key) == path \o ":" \o key

\* what the KV store holds under a full key, when it holds the key
ConsulValue(full_key) == "consul " \o full_key

\* An Optional[str] is <<>> for None and <<s>> for the string s.

\* _get_cached: (value, True) for an entry younger than the TTL
ConsulClient_get_cached(h, cache_key) ==
    IF cache_key \in DOMAIN h.cache /\ h.now - h.cache[cache_key].timestamp < CacheTtl
    THEN << <<h.cache[cache_key].value>>, TRUE >>
    ELSE << <<>>, FALSE >>

\* is_available()
ConsulClient_is_available(h) == h.enabled /\ h.available

\* _fetch(path, key, default) on the client and surroundings h: the value
\* returned and h afterwards.  _get_from_consul gives None when the server
\* does not answer (and then clears _available) or does not hold the key.
ConsulClient_fetch(h, path, key, default) ==
    LET cache_key == CacheKey(path, key)
        cached == ConsulClient_get_cached(h, cache_key)
        full_key == FullKey(path, key)
    IN  IF cached[2] /\ cached[1] # <<>>
        THEN [val |-> cached[1][1], after |-> h]
        ELSE LET asked == ConsulClient_is_available(h)
                 consul_value == IF asked /\ h.up /\ full_key \in h.kv
                                 THEN <<ConsulValue(full_key)>> ELSE <<>>
                 h1 == IF asked /\ ~h.up THEN [h EXCEPT !.available = FALSE] ELSE h
             IN  IF consul_value # <<>>
                 THEN [val |-> consul_value[1],
                       after |-> [h1 EXCEPT !.cache =
                                     (cache_key :> [key |-> key, value |-> consul_value[1],
                                                    path |-> path, timestamp |-> h.now]) @@ @]]
                 ELSE IF key \in DOMAIN h.env
                 THEN [val |-> h.env[key], after |-> h1]
                 ELSE [val |-> default, after |-> h1]

\* the client after ConsulClient(): __init__ has read the settings and
\* connected, and nothing is cached
InitConsul ==
    /\ mm = NoPlan
    /\ call = NoCall
    /\ ret = NoRet
    /\ \E enabled \in BOOLEAN, up \in BOOLEAN, names \in SUBSET {"B", "A:B"} :
           heap = [cache |-> <<>>, now |-> 0, enabled |-> enabled,
                   available |-> enabled /\ up, up |-> up, kv |-> {},
                   env |-> [k \in names |-> "env " \o k]]

\* get(key, default) on the base path or get(path, key, default)
ConsulGet ==
    \E a \in LookupArgs :
        LET args == IF a[1] = BasePath THEN <<a[2], "default">> ELSE <<a[1], a[2], "default">>
            path == IF Len(args) = 3 THEN args[1] ELSE BasePath
            key == IF Len(args) = 3 THEN args[2] ELSE args[1]
            fetched == ConsulClient_fetch(heap, path, key, args[Len(args)])
        IN  /\ call' = [fn |-> "get", args |-> args]
            /\ heap' = fetched.after
            /\ ret' = [key |-> key, op |-> "get", val |-> fetched.val, path |-> path,
                       before |-> heap]
            /\ mm' = mm

\* what happens around the client between two calls
Outside(h) ==
    /\ heap' = h
    /\ ret' = NoRet
    /\ UNCHANGED <<mm, call>>

\* time passes
ClockTick ==
    /\ heap.now < MaxClock
    /\ Outside([heap EXCEPT !.now = @ + 1])

\* a key is written to or deleted from the KV store
ConsulKvChange ==
    \E a \in LookupArgs :
        Outside([heap EXCEPT !.kv = IF FullKey(a[1], a[2]) \in @
                                    THEN @ \ {FullKey(a[1], a[2])}
                                    ELSE @ \cup {FullKey(a[1], a[2])}])

\* the Consul server stops or starts answering
ConsulServerChange == Outside([heap EXCEPT !.up = ~@])

\* refresh_cache()
ConsulRefreshCache ==
    /\ heap.cache # <<>>
    /\ Outside([heap EXCEPT !.cache = <<>>])

\* reconnect(): _connect() when enabled and not available
ConsulReconnect ==
    /\ heap.enabled /\ ~heap.available
    /\ Outside([heap EXCEPT !.available = heap.up])

NextConsul ==
    \/ ConsulGet
    \/ ClockTick
    \/ ConsulKvChange
    \/ ConsulServerChange
    \/ ConsulRefreshCache
    \/ ConsulReconnect

SpecConsul == InitConsul /\ [][NextConsul]_vars

(***************************************************************************)
(* consul_client.py: constructing ConsulClient.  heap holds the class      *)
(* attributes _instance and _lock (the thread holding it, 0 for none), the *)
(* objects made by super().__new__(cls) with the attributes the model      *)
(* follows (_initialized, absent until line 57 sets it; _cache, absent     *)
(* until __init__ sets it; the number of times the body of __init__ ran on *)
(* the object), and how far the import of the module has got.  call holds, *)
(* per thread, the frame of its pending ConsulClient() call.  ret holds    *)
(* what the callers saw: the instances returned, the keys that get has     *)
(* cached, the module global consul_client, whether a completed            *)
(* construction overlapped another one, and whether a call raised.         *)
(* The module body runs under the import lock: no thread reaches the class *)
(* before the statement consul_client = ConsulClient() has finished.       *)
(***************************************************************************)
MaxSingletonThreads == 2    \* threads constructing
MaxConstructions == 3       \* ConsulClient() calls after the import
MaxCachedKeys == 2          \* keys that get caches

SingletonThreads == 1 .. MaxSingletonThreads
CachedKeys == 1 .. MaxCachedKeys

\* the class body has run: _instance = None, _lock = threading.Lock()
InitSingleton ==
    /\ mm = NoPlan
    /\ heap = [lock |-> 0, imported |-> "no", instance |-> None, objs |-> <<>>]
    /\ call = [t \in SingletonThreads |-> Idle]
    /\ ret = [raised |-> FALSE, returned |-> {}, started |-> 0, cached |-> {},
              consul_client |-> None, overlap |-> FALSE]

\* a thread can reach the class once the import of the module has finished
CanConstruct_before_import(t) == TRUE

CanConstruct(t) == heap.imported = "done"

\* consul_client = ConsulClient(), the last statement but one of the module
ModuleImport ==
    /\ heap.imported = "no"
    /\ heap' = [heap EXCEPT !.imported = "running"]
    /\ call' = [call EXCEPT ![1] = [pc |-> "if cls._instance is None",
                                    caller |-> "module", self |-> None]]
    /\ UNCHANGED <<mm, ret>>

\* ConsulClient() from a thread
CallConsulClient(t) ==
    /\ call[t] = Idle
    /\ CanConstruct(t)
    /\ ret.started < MaxConstructions
    /\ call' = [call EXCEPT ![t] = [pc |-> "if cls._instance is None",
                                    caller |-> "thread", self |-> None]]
    /\ ret' = [ret EXCEPT !.started = @ + 1]
    /\ UNCHANGED <<mm, heap>>

\* __new__: if cls._instance is None
NewTest(t) ==
    /\ call[t].pc = "if cls._instance is None"
    /\ call' = [call EXCEPT ![t].pc = IF heap.instance = None
                                      THEN "with cls._lock"
                                      ELSE "return cls._instance"]
    /\ UNCHANGED <<mm, ret, heap>>

\* __new__: with cls._lock
NewLock(t) ==
    /\ call[t].pc = "with cls._lock"
    /\ heap.lock = 0
    /\ heap' = [heap EXCEPT !.lock = t]
    /\ call' = [call EXCEPT ![t].pc = "if cls._instance is None, locked"]
    /\ UNCHANGED <<mm, ret>>

\* __new__: the second test, under the lock; leaving the with block
\* releases the lock
NewLockedTest(t) ==
    /\ call[t].pc = "if cls._instance is None, locked"
    /\ IF heap.instance = None
       THEN /\ call' = [call EXCEPT ![t].pc = "cls._instance = super().__new__(cls)"]
            /\ heap' = heap
       ELSE /\ call' = [call EXCEPT ![t].pc = "return cls._instance"]
            /\ heap' = [heap EXCEPT !.lock = 0]
    /\ UNCHANGED <<mm, ret>>

\* __new__: cls._instance = super().__new__(cls)
NewCreate(t) ==
    /\ call[t].pc = "cls._instance = super().__new__(cls)"
    /\ heap' = [heap EXCEPT !.instance = <<"ConsulClient", Len(heap.objs) + 1>>,
                            !.objs = Append(@, [initialized |-> "absent",
                                                cache |-> {},
                                                has_cache |-> FALSE, inits |-> 0])]
    /\ call' = [call EXCEPT ![t].pc = "cls._instance._initialized = False"]
    /\ UNCHANGED <<mm, ret>>

\* __new__: cls._instance._initialized = False, and the end of the with block
NewMarkUninitialized(t) ==
    /\ call[t].pc = "cls._instance._initialized = False"
    /\ heap' = [heap EXCEPT !.objs[heap.instance[2]].initialized = "False",
                            !.lock = 0]
    /\ call' = [call EXCEPT ![t].pc = "return cls._instance"]
    /\ UNCHANGED <<mm, ret>>

\* __new__: return cls._instance; type.__call__ then runs __init__ on it
NewReturn(t) ==
    /\ call[t].pc = "return cls._instance"
    /\ call' = [call EXCEPT ![t].pc = "if self._initialized",
                            ![t].self = heap.instance]
    /\ UNCHANGED <<mm, ret, heap>>

\* the construction of thread t hands its caller the object self
Constructed(t, self) ==
    /\ call' = [call EXCEPT ![t] = Idle]
    /\ ret' = [ret EXCEPT !.returned = @ \cup {self},
                          !.consul_client = IF call[t].caller = "module" THEN self ELSE @,
                          !.overlap = @ \/ \E u \in SingletonThreads \ {t} : call[u] # Idle]

\* __init__: if self._initialized: return.  Reading the attribute before
\* line 57 has set it raises AttributeError.
InitTest(t) ==
    /\ call[t].pc = "if self._initialized"
    /\ LET self == call[t].self
           initialized == heap.objs[self[2]].initialized
       IN  CASE initialized = "absent" ->
                    /\ call' = [call EXCEPT ![t] = Idle]
                    /\ ret' = [ret EXCEPT !.raised = TRUE]
                    /\ heap' = heap
             [] initialized = "True" ->
                    /\ Constructed(t, self)
                    /\ heap' = heap
             [] OTHER ->
                    /\ call' = [call EXCEPT ![t].pc = "self._initialized = True"]
                    /\ UNCHANGED <<ret, heap>>
    /\ mm' = mm

\* __init__: self._initialized = True
InitMark(t) ==
    /\ call[t].pc = "self._initialized = True"
    /\ heap' = [heap EXCEPT !.objs[call[t].self[2]].initialized = "True"]
    /\ call' = [call EXCEPT ![t].pc = "self._consul = None"]
    /\ UNCHANGED <<mm, ret>>

\* __init__: the rest of the body: _consul = None, _available = False,
\* _cache = {}, the settings, _connect()
InitBody(t) ==
    /\ call[t].pc = "self._consul = None"
    /\ LET self == call[t].self
       IN  /\ heap' = [heap EXCEPT !.objs[self[2]].has_cache = TRUE,
                                   !.objs[self[2]].cache = {},
                                   !.objs[self[2]].inits = @ + 1,
                                   !.imported = IF call[t].caller = "module"
                                                THEN "done" ELSE @]
           /\ Constructed(t, self)
    /\ mm' = mm

\* a caller holding the instance looks up a key that Consul holds: _fetch
\* caches the value (_set_cached).  Without a _cache the call raises
\* AttributeError.
ClientGet ==
    \E self \in ret.returned, k \in CachedKeys :
        /\ IF heap.objs[self[2]].has_cache
           THEN /\ heap' = [heap EXCEPT !.objs[self[2]].cache = @ \cup {k}]
                /\ ret' = [ret EXCEPT !.cached = @ \cup {k}]
           ELSE /\ heap' = heap
                /\ ret' = [ret EXCEPT !.raised = TRUE]
        /\ UNCHANGED <<mm, call>>

NextSingleton ==
    \/ ModuleImport
    \/ \E t \in SingletonThreads : CallConsulClient(t)
    \/ \E t \in SingletonThreads : NewTest(t)
    \/ \E t \in SingletonThreads : NewLock(t)
    \/ \E t \in SingletonThreads : NewLockedTest(t)
    \/ \E t \in SingletonThreads : NewCreate(t)
    \/ \E t \in SingletonThreads : NewMarkUninitialized(t)
    \/ \E t \in SingletonThreads : NewReturn(t)
    \/ \E t \in SingletonThreads : InitTest(t)
    \/ \E t \in SingletonThreads : InitMark(t)
    \/ \E t \in SingletonThreads : InitBody(t)
    \/ ClientGet

SpecSingleton == InitSingleton /\ [][NextSingleton]_vars

(***************************************************************************)
(* Counts, stated over the plan's contents directly                        *)
(***************************************************************************)
RECURSIVE SumFn(_)
SumFn(f) ==
    IF DOMAIN f = {} THEN 0
    ELSE LET x == CHOOSE y \in DOMAIN f : TRUE
         IN  f[x] + SumFn([y \in DOMAIN f \ {x} |-> f[y]])

\* the places <<j, k, l>> of the test items held by the widgets (o = "widgets")
\* or the buttons (o = "buttons") of a mode
ItemPlaces(mode, o) ==
    UNION {UNION {{<<j, k, l>> : l \in DOMAIN mode[o][j].viewpoints[k].test_items} :
                  k \in DOMAIN mode[o][j].viewpoints} :
           j \in DOMAIN mode[o]}

DTSum(mode) ==
    SumFn([j \in DOMAIN mode.decision_tables |->
              mode.decision_tables[j].combinations
              * mode.decision_tables[j].row_multiplier])

FixedSum(mode) == SumFn([c \in FixedCategories |-> mode.fixed_tests[c]])

ModeSum(mode) ==
    Cardinality(ItemPlaces(mode, "widgets")) + Cardinality(ItemPlaces(mode, "buttons"))
    + DTSum(mode) + FixedSum(mode)

\* C2: a widget's total_tests equals B * k, B the catalog base count of its
\* type and k the number of the mode's validation triggers that appear in its
\* trigger_buttons (0 when k = 0), in every state reached by building a plan.
C2_MaterializedTotalIsBaseTimesTriggers ==
    ret.op = "widget_total_tests" =>
        LET mode == mm.modes[ret.i]
            w == mode.widgets[ret.j]
            B == IF w.widget_type \in DOMAIN WIDGET_TEST_COUNTS
                 THEN WIDGET_TEST_COUNTS[w.widget_type] ELSE 0
            k == Cardinality({n \in DOMAIN mode.validation_triggers :
                    \E t \in DOMAIN w.trigger_buttons :
                        w.trigger_buttons[t] = mode.validation_triggers[n]})
        IN  ret.val = B * k

\* C3: a mode's total_tests is widget_tests + button_tests + dt_tests +
\* fixed_tests.total; widget_tests and button_tests are the numbers of test
\* items under the mode's widgets and buttons, dt_tests the sum of the
\* decision tables' products, fixed_tests.total the sum of the eleven
\* categories.
C3_Additivity ==
    ret.op = "mode_totals" =>
        LET mode == mm.modes[ret.i]
        IN  /\ ret.total_tests =
                 ret.widget_tests + ret.button_tests + ret.dt_tests + ret.fixed_total
            /\ ret.widget_tests = Cardinality(ItemPlaces(mode, "widgets"))
            /\ ret.button_tests = Cardinality(ItemPlaces(mode, "buttons"))
            /\ ret.dt_tests = DTSum(mode)
            /\ ret.fixed_total = FixedSum(mode)

\* the totals of a mode with fixed tests and a widget holding a test item
\* have been read
C3_Witness ==
    /\ ret.op = "mode_totals"
    /\ ret.widget_tests > 0
    /\ ret.fixed_total > 0
    /\ ret.total_tests = ret.widget_tests + ret.fixed_total

\* C4: total_expected_tests read after any sequence of mutations is the sum
\* of total_tests over the modes now in the aggregate.
C4_TotalIsCurrentSum ==
    ret.op = "total_expected_tests" =>
        ret.val = SumFn([i \in DOMAIN mm.modes |-> ModeSum(mm.modes[i])])

\* total_expected_tests has been read from a plan to which a mode and a
\* decision table were added after its construction
C4_Witness ==
    /\ ret.op = "total_expected_tests"
    /\ \E i \in DOMAIN mm.modes :
        /\ mm.modes[i].fixed_tests = FixedTests(<<>>)
        /\ mm.modes[i].decision_tables # <<>>
    /\ ret.val # 0

(***************************************************************************)
(* validate()                                                              *)
(***************************************************************************)
\* the message names every one of the given parts
Names(msg, parts) == parts \subseteq Range(msg)

DuplicateIds(ids) == {ids[a] : a \in {b \in DOMAIN ids : \E c \in 1..(b - 1) : ids[c] = ids[b]}}

DuplicateModes == DuplicateIds(Map(mm.modes, LAMBDA m : m.mode))

UniqueIdsInEveryMode ==
    \A i \in DOMAIN mm.modes :
        /\ DuplicateIds(Map(mm.modes[i].widgets, WidgetId)) = {}
        /\ DuplicateIds(Map(mm.modes[i].buttons, ButtonId)) = {}

\* C7: when two widgets of a mode share a widget_id, or two buttons of a mode
\* share a button_id, validate() returns a non-empty list holding a message
\* that names the mode and the duplicated identifier.
C7_DuplicateIdsReported ==
    ret.op = "validate" =>
        \A i \in DOMAIN mm.modes :
            /\ \A id \in DuplicateIds(Map(mm.modes[i].widgets, WidgetId)) :
                /\ ret.val # <<>>
                /\ \E n \in DOMAIN ret.val :
                    Names(ret.val[n], {mm.modes[i].mode, "Duplicate widget_id: ", id})
            /\ \A id \in DuplicateIds(Map(mm.modes[i].buttons, ButtonId)) :
                /\ ret.val # <<>>
                /\ \E n \in DOMAIN ret.val :
                    Names(ret.val[n], {mm.modes[i].mode, "Duplicate button_id: ", id})

\* validate() has reported two buttons BTN-2 of the ADD mode
C7_Witness ==
    /\ ret.op = "validate"
    /\ \E i \in DOMAIN mm.modes :
        /\ mm.modes[i].mode = "ADD"
        /\ Map(mm.modes[i].buttons, ButtonId) = <<"BTN-2", "BTN-2">>
    /\ \E n \in DOMAIN ret.val :
        ret.val[n] = <<"Mode ", "ADD", ": ", "Duplicate button_id: ", "BTN-2">>

\* C8 as stated: validate() returns [] for every plan with at least one mode
\* whose widget ids and button ids are unique within every mode.
C8_EmptyWhenIdsUnique ==
    (ret.op = "validate" /\ mm.modes # <<>> /\ UniqueIdsInEveryMode)
        => ret.val = <<>>

\* C8 as amended: validate() returns [] for every plan with non-empty plan_id,
\* screen_id and screen_name, at least one mode, pairwise distinct mode values,
\* and widget ids and button ids unique within every mode.
C8_EmptyWhenWellFormed ==
    (/\ ret.op = "validate"
     /\ mm.plan_id # "" /\ mm.screen_id # "" /\ mm.screen_name # ""
     /\ mm.modes # <<>>
     /\ DuplicateModes = {}
     /\ UniqueIdsInEveryMode)
        => ret.val = <<>>

\* validate() has returned [] for a plan of two modes that hold the same
\* widget id, once each
C8_Witness ==
    /\ ret.op = "validate"
    /\ ret.val = <<>>
    /\ Len(mm.modes) = 2
    /\ \A i \in DOMAIN mm.modes : Map(mm.modes[i].widgets, WidgetId) = <<"WGT-1">>

\* C9: when two plans of the modes list have the same mode value, validate()
\* returns an error naming that mode and is_valid() is false; whenever
\* is_valid() is true the mode values are pairwise distinct.
C9_AtMostOnePlanPerMode ==
    /\ ret.op = "validate" =>
        \A m \in DuplicateModes :
            \E n \in DOMAIN ret.val : Names(ret.val[n], {"Duplicate mode: ", m})
    /\ (ret.op = "is_valid" /\ DuplicateModes # {}) => ret.val = FALSE
    /\ (ret.op = "is_valid" /\ ret.val = TRUE) => DuplicateModes = {}

\* is_valid() has returned false for a plan whose only defect is a second
\* ADD mode
C9_Witness ==
    /\ ret.op = "is_valid"
    /\ ret.val = FALSE
    /\ mm.plan_id # "" /\ mm.screen_id # "" /\ mm.screen_name # ""
    /\ Map(mm.modes, LAMBDA m : m.mode) = <<"ADD", "ADD">>
    /\ UniqueIdsInEveryMode

\* C10: for an aggregate with no modes validate() returns a list holding the
\* "At least one mode is required" error and is_valid() is false.
C10_NoModesIsAnError ==
    /\ (ret.op = "validate" /\ mm.modes = <<>>) =>
        \E n \in DOMAIN ret.val : ret.val[n] = <<"At least one mode is required">>
    /\ (ret.op = "is_valid" /\ mm.modes = <<>>) => ret.val = FALSE

\* validate() has returned exactly that error for an empty plan with its
\* identifying fields given
C10_Witness ==
    /\ ret.op = "validate"
    /\ mm = create_empty_mindmap("PLAN-001", "SC-011", "User Master")
    /\ mm = create_mindmap_for_crud("PLAN-001", "SC-011", "User Master",
                                    FALSE, FALSE, FALSE)
    /\ ret.val = << <<"At least one mode is required">> >>

\* C11: for each of plan_id, screen_id and screen_name that is empty, the list
\* validate() returns holds the error naming that field, whatever the other
\* fields are, and in the same list as the mode errors (no modes, a repeated
\* mode, a repeated widget id).
C11_MissingFieldsReported ==
    ret.op = "validate" =>
        /\ mm.plan_id = "" => <<"plan_id is required">> \in Range(ret.val)
        /\ mm.screen_id = "" => <<"screen_id is required">> \in Range(ret.val)
        /\ mm.screen_name = "" => <<"screen_name is required">> \in Range(ret.val)
        /\ mm.modes = <<>> => <<"At least one mode is required">> \in Range(ret.val)
        /\ DuplicateModes # {} =>
               \E e \in Range(ret.val) : Names(e, {"Duplicate mode: "})
        /\ \A i \in DOMAIN mm.modes :
               DuplicateIds(Map(mm.modes[i].widgets, WidgetId)) # {} =>
                   \E e \in Range(ret.val) : Names(e, {"Duplicate widget_id: "})

\* validate() was called on a plan with all three fields empty and a repeated
\* mode, and answered with the three field errors and the mode error
C11_Witness ==
    /\ ret.op = "validate"
    /\ mm.plan_id = "" /\ mm.screen_id = "" /\ mm.screen_name = ""
    /\ DuplicateModes # {}
    /\ Len(ret.val) = 4

\* what validate() checks, written over the current contents of the plan
WellFormed ==
    /\ mm.plan_id # "" /\ mm.screen_id # "" /\ mm.screen_name # ""
    /\ mm.modes # <<>>
    /\ DuplicateModes = {}
    /\ UniqueIdsInEveryMode

\* C12: is_valid() answers for the contents the plan has when it is called,
\* never from an earlier answer: whatever constructions, appends and removals
\* came before, the value returned is true exactly when the plan as it now
\* stands has nothing for validate() to report.
C12_IsValidIsCurrent ==
    ret.op = "is_valid" =>
        /\ ret.val = (MindMapModel_validate(mm) = <<>>)
        /\ ret.val = WellFormed

\* is_valid() has answered false on a plan whose only fault is a widget id
\* appended a second time
C12_Witness ==
    /\ ret.op = "is_valid" /\ ret.val = FALSE
    /\ mm.plan_id # "" /\ mm.screen_id # "" /\ mm.screen_name # ""
    /\ DuplicateModes = {}
    /\ \E i \in DOMAIN mm.modes :
           DuplicateIds(Map(mm.modes[i].widgets, WidgetId)) # {}

StoredFields(m) == <<m.validation_status, m.validation_errors, m.validation_warnings>>

\* C13: a call of validate() or is_valid() leaves validation_status,
\* validation_errors and validation_warnings as they were, and has_errors()
\* and has_warnings() answer from validation_errors and validation_warnings
\* alone, whatever validate() would report on the same plan.
C13_StoredOutcomeIsSeparate ==
    /\ [](/\ ret.op = "has_errors" => ret.val = (mm.validation_errors # <<>>)
          /\ ret.op = "has_warnings" => ret.val = (mm.validation_warnings # <<>>))
    /\ [][ret'.op \in {"validate", "is_valid"} => StoredFields(mm') = StoredFields(mm)]_vars

\* has_errors() has answered false on a plan for which validate() has
\* something to report
C13_Witness ==
    /\ ret.op = "has_errors" /\ ret.val = FALSE
    /\ MindMapModel_validate(mm) # <<>>

\* and the other way round: has_errors() has answered true on a plan for
\* which validate() reports nothing
C13_WitnessStoredErrorsOnValidPlan ==
    /\ ret.op = "has_errors" /\ ret.val = TRUE
    /\ MindMapModel_validate(mm) = <<>>

ValidateMessageHeads ==
    {"plan_id is required", "screen_id is required", "screen_name is required",
     "At least one mode is required", "Duplicate mode: ", "Mode "}

\* C14: the structural check runs only when validate() or is_valid() is
\* called.  A construction or an in-place mutation is never refused, also when
\* the plan it leaves has a repeated mode, a repeated widget or button id or
\* no mode, and it yields no validation result and stores none; validate()
\* called on any such plan returns a list of messages.
C14_ValidationOnlyOnRequest ==
    /\ [](/\ Len(mm.modes) < MaxModes =>
               ENABLED Mutate([mm EXCEPT !.modes = Append(@, ModeTestPlan("ADD", <<>>, FixedTests(<<>>)))],
                              MaxCheckedPlanSize)
          /\ (mm.modes # <<>> /\ PlanSize(mm) < MaxCheckedPlanSize) =>
                 /\ ENABLED Mutate([mm EXCEPT !.modes[1].widgets =
                                       Append(@, WidgetTestPlan("WGT-1", "EMAIL"))],
                                   MaxCheckedPlanSize)
                 /\ ENABLED Mutate([mm EXCEPT !.modes[1].buttons =
                                       Append(@, ButtonTestPlan("BTN-1"))],
                                   MaxCheckedPlanSize)
          /\ ret.op = "validate" =>
                 \A n \in DOMAIN ret.val : Head(ret.val[n]) \in ValidateMessageHeads)
    /\ [][mm' # mm => ret' = NoRet /\ StoredFields(mm') = StoredFields(mm)]_vars

\* a plan that has a repeated mode, a repeated widget id and no plan_id stands
\* unchecked: no call has been made on it since it was last changed
C14_Witness ==
    /\ ret = NoRet
    /\ mm.plan_id = ""
    /\ DuplicateModes # {}
    /\ \E i \in DOMAIN mm.modes :
           DuplicateIds(Map(mm.modes[i].widgets, WidgetId)) # {}

C16_UnknownKeysGiveDefaults ==
    /\ (ret.op = "get_widget_test_count" /\ call.widget_type \notin WidgetType)
           => ret.val = 0
    /\ (ret.op = "get_applicable_modes" /\ call.widget_type \notin WidgetType)
           => ret.val = <<>>
    /\ (ret.op = "get_mode_fixed_tests" /\ call.mode \notin ScreenMode)
           => DOMAIN ret.val = {}
    /\ (/\ ret.op = "get_dt_test_count"
        /\ \/ call.mode \notin ScreenMode
           \/ call.role_context \notin {"System_Admin", "Backoffice", "Operator"})
           => ret.val = 0
    /\ (/\ ret.op = "calculate_trigger_tests"
        /\ call.widget_type \notin WidgetType \/ call.mode \notin ScreenMode)
           => ret.val = 0

\* get_mode_fixed_tests has answered {} for the unknown mode PRINT
C16_Witness ==
    /\ ret.op = "get_mode_fixed_tests"
    /\ call.mode = "PRINT"
    /\ DOMAIN ret.val = {}

\* the other lookups have answered with their defaults as well
C16_WitnessDtUnknownRole ==
    /\ ret.op = "get_dt_test_count"
    /\ call.mode = "ADD" /\ call.role_context = "Auditor"
    /\ ret.val = 0

C16_WitnessTriggerUnknownKind ==
    /\ ret.op = "calculate_trigger_tests"
    /\ call.widget_type = "SLIDER" /\ call.mode = "ADD"
    /\ call.trigger_buttons = <<"Search", "Save">>
    /\ ret.val = 0

\* C17: the catalog is never changed after it is loaded: whatever lookups are
\* called, plans built by create_mindmap_for_crud, and returned dicts, returned
\* lists and built plans edited in place, WIDGET_TEST_COUNTS,
\* WIDGET_APPLICABLE_MODES, the per-mode fixed-test tables,
\* MODE_VALIDATION_TRIGGERS and DT_COMBINATIONS hold their load-time values.
C17_CatalogKeepsLoadedValues ==
    /\ heap.catalog.WIDGET_TEST_COUNTS = WIDGET_TEST_COUNTS
    /\ heap.catalog.WIDGET_APPLICABLE_MODES = WIDGET_APPLICABLE_MODES
    /\ heap.catalog.LIST_MODE_FIXED_TESTS = LIST_MODE_FIXED_TESTS
    /\ heap.catalog.ADD_MODE_FIXED_TESTS = ADD_MODE_FIXED_TESTS
    /\ heap.catalog.EDIT_MODE_FIXED_TESTS = EDIT_MODE_FIXED_TESTS
    /\ heap.catalog.VIEW_MODE_FIXED_TESTS = VIEW_MODE_FIXED_TESTS
    /\ heap.catalog.MODE_VALIDATION_TRIGGERS = MODE_VALIDATION_TRIGGERS
    /\ heap.catalog.DT_COMBINATIONS = DT_COMBINATIONS

\* the caller holds an edited dict of get_mode_fixed_tests("LIST") and a plan
\* whose ADD mode has had a trigger appended
C17_Witness ==
    /\ ret.op = "edited dict"
    /\ call.mode = "LIST"
    /\ ret.val # LIST_MODE_FIXED_TESTS
    /\ \E i \in DOMAIN mm.modes :
           /\ mm.modes[i].mode = "ADD"
           /\ mm.modes[i].validation_triggers = <<"Search", "Save", "Cancel">>

CatalogFixedTotal(mode) ==
    SumFn([c \in DOMAIN get_mode_fixed_tests(mode) |-> get_mode_fixed_tests(mode)[c]])

\* C19: create_mindmap_for_crud returns a plan with exactly one mode plan per
\* enabled flag, in the order LIST, ADD, EDIT; each carries the catalog's fixed
\* tests and validation triggers of its mode and no widget, button or decision
\* table; total_expected_tests is the sum of the catalog's fixed-test totals
\* of the included modes; for LIST alone the mode's total_tests and
\* total_expected_tests are both 63.
C19_FactoryPlan ==
    ret.op = "create_mindmap_for_crud" =>
        LET included == SelectSeq(<<"LIST", "ADD", "EDIT">>, LAMBDA m :
                            \/ m = "LIST" /\ call.include_list
                            \/ m = "ADD" /\ call.include_add
                            \/ m = "EDIT" /\ call.include_edit)
        IN  /\ Map(mm.modes, LAMBDA m : m.mode) = included
            /\ \A i \in DOMAIN mm.modes :
                   /\ \A c \in FixedCategories :
                          mm.modes[i].fixed_tests[c] =
                              DictGet(heap.catalog[mm.modes[i].mode \o "_MODE_FIXED_TESTS"], c, 0)
                   /\ mm.modes[i].validation_triggers =
                          heap.catalog.MODE_VALIDATION_TRIGGERS[mm.modes[i].mode]
                   /\ mm.modes[i].widgets = <<>>
                   /\ mm.modes[i].buttons = <<>>
                   /\ mm.modes[i].decision_tables = <<>>
            /\ MindMapModel_total_expected_tests(mm) =
                   SumSeq(Map(included, CatalogFixedTotal))
            /\ included = <<"LIST">> =>
                   /\ ModeTestPlan_total_tests(mm.modes[1]) = 63
                   /\ MindMapModel_total_expected_tests(mm) = 63

\* the factory has been called with only include_list set
C19_Witness ==
    /\ ret.op = "create_mindmap_for_crud"
    /\ call.include_list /\ ~call.include_add /\ ~call.include_edit
    /\ Len(mm.modes) = 1
    /\ MindMapModel_total_expected_tests(mm) = 63

\* the factory has been called with all three flags set
C19_WitnessAllModes ==
    /\ ret.op = "create_mindmap_for_crud"
    /\ call.include_list /\ call.include_add /\ call.include_edit
    /\ Len(mm.modes) = 3
    /\ MindMapModel_total_expected_tests(mm) = 72

\* the requests of the call so far that failed with a connection or timeout error
RetryableFailures ==
    {i \in DOMAIN call.outcomes : call.outcomes[i].raised \in RetryableErrors}

\* C20: when the request of generate_embeddings fails with a connection or
\* timeout error on its first j attempts, j below the attempt limit of 3, and
\* then succeeds, the call returns the result of that successful request
\* after exactly j + 1 requests (two failures, then success: 3 requests); the
\* call does not give up on such an error before the limit is reached.
C20_RetryUntilSuccess ==
    /\ (ret.op = "generate_embeddings" /\ ret.raised = "none") =>
           LET j == Cardinality(RetryableFailures)
           IN  /\ j < DecoratorMaxRetries
               /\ RetryableFailures = 1..j
               /\ Len(call.outcomes) = j + 1
               /\ call.outcomes[j + 1].raised = "none"
               /\ ret.val = DictGet(call.outcomes[j + 1].data, "embeddings", <<>>)
               /\ Len(call.slept) = j
    /\ (ret.op = "generate_embeddings" /\ ret.raised \in RetryableErrors) =>
           /\ Len(call.outcomes) = DecoratorMaxRetries
           /\ RetryableFailures = 1..DecoratorMaxRetries
    /\ (call.fn = "generate_embeddings" /\ ret = NoRet) =>
           /\ RetryableFailures = DOMAIN call.outcomes
           /\ Len(call.outcomes) < DecoratorMaxRetries

\* two connection errors, then a response: the embeddings are returned after
\* three requests
C20_Witness ==
    /\ ret.op = "generate_embeddings" /\ ret.raised = "none"
    /\ Len(call.outcomes) = 3
    /\ call.outcomes[1].raised = "DataStoreConnectionError"
    /\ call.outcomes[2].raised = "DataStoreConnectionError"
    /\ ret.val = << <<1, 2>> >>

C21_AttemptsWithinClientMaxRetries ==
    (/\ ret.op = "generate_embeddings"
     /\ \A i \in DOMAIN call.outcomes :
            call.outcomes[i].raised = "DataStoreConnectionError") =>
        /\ ret.raised = "DataStoreConnectionError"
        /\ Len(call.outcomes) <= call.client_max_retries

\* C22: a call of add_documents on a batch of n documents that returns has
\* had exactly n requests processed, one per document in batch order, and
\* its chunks_count is the number of chunks that the responses carried, also
\* when a request failed with a connection or timeout error on the way (the
\* request that failed is not counted: a failed request is sent again by
\* any retry).
C22_OneRequestPerDocument ==
    (ret.op = "add_documents" /\ ret.raised = "none") =>
        /\ call.answered = [k \in 1..call.documents |-> k]
        /\ ret.chunks_count = call.returned

\* C23: since the shared app was last reset or injected, every call of
\* get_shared_celery_app has returned one and the same app, every
\* CeleryClient constructed holds that app, and after
\* initialize_celery_client(app) it is exactly the injected app; also when
\* several clients are constructed at the same time while no app exists.
C23_OneSharedApp ==
    /\ Cardinality(ret.returned) <= 1
    /\ ret.clients \subseteq ret.returned
    /\ ret.initialized => ret.returned \subseteq {ExistingApp}

\* C24: the result of calculate_trigger_tests is the same for every list of
\* declared trigger names with the same set of names (any order, any
\* repetition), and the same as for the list without the names that the
\* mode's trigger list does not have; such a name raises no error.
C24_OnlyTheSetOfNamesCounts ==
    ret.op = "calculate_trigger_tests" =>
        LET mode_triggers == DictGet(MODE_VALIDATION_TRIGGERS, call.mode, <<>>)
        IN  /\ ret.val \in Nat
            /\ \A other \in SeqsUpTo(TriggerNames, MaxTriggerButtons) :
                   Range(other) = Range(call.trigger_buttons) =>
                       calculate_trigger_tests(call.widget_type, other, call.mode) = ret.val
            /\ calculate_trigger_tests(
                   call.widget_type,
                   SelectSeq(call.trigger_buttons, LAMBDA t : t \in Range(mode_triggers)),
                   call.mode) = ret.val

\* an EMAIL widget in ADD mode declaring Save twice, after a name that ADD
\* mode does not have, counts Save once
C24_Witness ==
    /\ ret.op = "calculate_trigger_tests"
    /\ call.widget_type = "EMAIL"
    /\ call.mode = "ADD"
    /\ Len(call.trigger_buttons) = 3
    /\ call.trigger_buttons[2] = "Save"
    /\ call.trigger_buttons[3] = "Save"
    /\ call.trigger_buttons[1] \notin Range(MODE_VALIDATION_TRIGGERS["ADD"])
    /\ ret.val = 20

\* C25: a DTReference built without row_multiplier from the combinations that
\* DT_COMBINATIONS gives for a mode and a role context has the total_tests
\* that get_dt_test_count gives for that mode and role context, as if the
\* default multiplier were DT_ROW_MULTIPLIER.
C25_EntityAgreesWithCatalog ==
    (ret.op = "DTReference.total_tests" /\ call.row_multiplier = <<>>) =>
        /\ ret.entity.row_multiplier = DT_ROW_MULTIPLIER
        /\ \A mode \in DOMAIN DT_COMBINATIONS :
               \A role_context \in DOMAIN DT_COMBINATIONS[mode] :
                   DT_COMBINATIONS[mode][role_context] = call.combinations =>
                       ret.val = get_dt_test_count(mode, role_context)

\* the total of a DTReference built from the 10 combinations of EDIT mode's
\* System_Admin, without row_multiplier, has been read: 20
C25_Witness ==
    /\ ret.op = "DTReference.total_tests"
    /\ call.row_multiplier = <<>>
    /\ call.combinations = DT_COMBINATIONS["EDIT"]["System_Admin"]
    /\ ret.val = 20
    /\ get_dt_test_count("EDIT", "System_Admin") = 20

ViewpointId(vp) == vp.viewpoint_id

\* C26: when validate() returns [] (is_valid() returns True), no widget and
\* no button of the plan holds two viewpoints with the same viewpoint_id.
C26_ValidPlansHaveUniqueViewpointIds ==
    (\/ ret.op = "validate" /\ ret.val = <<>>
     \/ ret.op = "is_valid" /\ ret.val = TRUE) =>
        \A i \in DOMAIN mm.modes :
            /\ \A j \in DOMAIN mm.modes[i].widgets :
                   DuplicateIds(Map(mm.modes[i].widgets[j].viewpoints, ViewpointId)) = {}
            /\ \A j \in DOMAIN mm.modes[i].buttons :
                   DuplicateIds(Map(mm.modes[i].buttons[j].viewpoints, ViewpointId)) = {}

\* what C27 says of a get_breakdown() result b for the plan: every per-mode
\* entry adds up, there is one entry per mode plan of the modes list, and
\* grand_total is the sum of the entries' totals
BreakdownIsConsistent(b) ==
    LET names == DOMAIN b \ {"grand_total"}
    IN  /\ \A n \in names :
               b[n].total = b[n].widget_tests + b[n].button_tests
                            + b[n].dt_tests + b[n].fixed_tests
        /\ Cardinality(names) = Len(mm.modes)
        /\ b["grand_total"] = SumFn([n \in names |-> b[n].total])

\* C27 as stated: in every state of a plan under construction, valid or not,
\* the get_breakdown() result is consistent.
C27_BreakdownConsistent ==
    (ret.op = "projections" /\ "get_breakdown" \in DOMAIN ret.latest) =>
        BreakdownIsConsistent(ret.latest["get_breakdown"])

\* C27, amended: the get_breakdown() result is consistent in every state
\* whose mode plans have pairwise distinct mode values; in every state each
\* entry adds up, there is one entry per distinct mode value, holding the
\* counts of the last mode plan of that value, and grand_total is the sum of
\* total_tests over all mode plans of the list.
C27_BreakdownConsistentForDistinctModes ==
    (ret.op = "projections" /\ "get_breakdown" \in DOMAIN ret.latest) =>
        LET b == ret.latest["get_breakdown"]
            names == DOMAIN b \ {"grand_total"}
        IN  /\ DuplicateModes = {} => BreakdownIsConsistent(b)
            /\ names = {mm.modes[i].mode : i \in DOMAIN mm.modes}
            /\ \A i \in DOMAIN mm.modes :
                   (\A k \in (i + 1)..Len(mm.modes) : mm.modes[k].mode # mm.modes[i].mode) =>
                       /\ b[mm.modes[i].mode].total = ModeTestPlan_total_tests(mm.modes[i])
                       /\ b[mm.modes[i].mode].total =
                              b[mm.modes[i].mode].widget_tests + b[mm.modes[i].mode].button_tests
                              + b[mm.modes[i].mode].dt_tests + b[mm.modes[i].mode].fixed_tests
            /\ b["grand_total"] = SumSeq(Map(mm.modes, ModeTestPlan_total_tests))

\* the breakdown of a plan with three distinct modes, one of them holding a
\* widget with a viewpoint or a decision table, has been taken
C27_Witness ==
    /\ ret.op = "projections" /\ "get_breakdown" \in DOMAIN ret.latest
    /\ Len(mm.modes) = 3
    /\ DuplicateModes = {}
    /\ \E i \in DOMAIN mm.modes :
           mm.modes[i].widgets # <<>> \/ mm.modes[i].decision_tables # <<>>
    /\ BreakdownIsConsistent(ret.latest["get_breakdown"])
    /\ ret.latest["get_breakdown"]["grand_total"] > 0

\* C28: while the plan is only read, by any number of threads whose reads
\* interleave in any way, no read changes the plan, and every read of
\* get_breakdown(), get_detailed_breakdown(), get_summary(), validate() and
\* total_expected_tests returns what it returns to a caller that is alone.
C28_ConcurrentReadsAgree ==
    /\ [](\A t \in Readers :
            ret[t] # NoRet => ret[t].val = ReadAlone(ret[t].op, mm))
    /\ [][mm' = mm]_vars

\* two threads have read the same plan with content, one by get_summary()
\* and one by validate(), the second having started before the first was done
C28_Witness ==
    /\ ret[1] # NoRet /\ ret[1].op = "get_summary"
    /\ call[2] # Idle /\ call[2].op = "validate" /\ call[2].i = 2
    /\ Len(mm.modes) = 3
    /\ mm.modes[1].widgets # <<>>
    /\ ret[1].val.breakdown["grand_total"] = MindMapModel_total_expected_tests(mm)

\* the priority order of C29 for the get that ret records, entry_exists being
\* the condition under which the cache answers
PriorityOrder(entry_exists) ==
    LET h == ret.before
        cache_key == CacheKey(ret.path, ret.key)
        full_key == FullKey(ret.path, ret.key)
    IN  IF entry_exists
        THEN ret.val = h.cache[cache_key].value /\ heap.cache = h.cache
        ELSE IF ConsulClient_is_available(h) /\ h.up /\ full_key \in h.kv
        THEN /\ ret.val = ConsulValue(full_key)
             /\ heap.cache = (cache_key :> [key |-> ret.key, value |-> ret.val,
                                            path |-> ret.path, timestamp |-> h.now]) @@ h.cache
        ELSE /\ ret.val = IF ret.key \in DOMAIN h.env THEN h.env[ret.key] ELSE "default"
             /\ heap.cache = h.cache

\* C29: get(key, default) answers from an unexpired cache entry for
\* (path, key) if there is one, otherwise from Consul when it is available
\* and holds the key (and caches that value), otherwise from the environment
\* variable named key, otherwise with the default; only Consul values are
\* cached, and no entry as old as the TTL is returned.
C29_PriorityOrder ==
    (ret.op = "get" /\ Len(call.args) = 2) =>
        LET h == ret.before
            cache_key == CacheKey(ret.path, ret.key)
        IN  PriorityOrder(/\ cache_key \in DOMAIN h.cache
                          /\ h.cache[cache_key].path = ret.path
                          /\ h.cache[cache_key].key = ret.key
                          /\ h.now - h.cache[cache_key].timestamp < CacheTtl)

\* The order that holds of every get, with two or three arguments: the cache
\* answers from the unexpired entry stored under the string path + ":" + key,
\* whichever path and key it was stored for.
PriorityOrderByCacheKey ==
    ret.op = "get" =>
        LET h == ret.before
            cache_key == CacheKey(ret.path, ret.key)
        IN  PriorityOrder(/\ cache_key \in DOMAIN h.cache
                          /\ h.now - h.cache[cache_key].timestamp < CacheTtl)

\* a get found an entry too old to use, Consul no longer held the key, and
\* the environment variable answered
StaleEntryPassedOver ==
    /\ ret.op = "get"
    /\ CacheKey(ret.path, ret.key) \in DOMAIN ret.before.cache
    /\ ret.before.now - ret.before.cache[CacheKey(ret.path, ret.key)].timestamp >= CacheTtl
    /\ ConsulClient_is_available(ret.before) /\ ret.before.up
    /\ FullKey(ret.path, ret.key) \notin ret.before.kv
    /\ ret.key \in DOMAIN ret.before.env
    /\ ret.val = "env " \o ret.key

\* C30: ConsulClient is a singleton under any interleaving: every
\* construction, sequential or concurrent, yields the same instance, the
\* body of __init__ takes effect at most once, and no construction discards
\* entries already cached (no call raises either).
C30_SingletonUnderAnyInterleaving ==
    /\ Cardinality(ret.returned) <= 1
    /\ \A i \in 1 .. Len(heap.objs) : heap.objs[i].inits <= 1
    /\ ret.consul_client # None =>
           /\ ret.returned = {ret.consul_client}
           /\ ret.cached \subseteq heap.objs[ret.consul_client[2]].cache
    /\ ~ret.raised

\* all the constructions have returned, two of them overlapped, and an
\* entry was cached before the last one
C30_Witness ==
    /\ ret.started = MaxConstructions
    /\ \A t \in SingletonThreads : call[t] = Idle
    /\ ret.overlap
    /\ ret.cached # {}
    /\ ret.cached \subseteq heap.objs[ret.consul_client[2]].cache
====
